---------------------------- MODULE Spec2Model ----------------------------
(***************************************************************************)
(* A model of the MRF flattener (processors/mrfutils.py): json_mrf_to_csv  *)
(* reads a JSON machine-readable file as a stream of (prefix, event,       *)
(* value) triples, resolves provider references (inline or fetched by a    *)
(* pool of asyncio workers), filters in-network items by billing code,     *)
(* arrangement and NPI, and appends rows to CSV tables.  Spec is the run   *)
(* of json_mrf_to_csv, SpecResolver the same run on files with more remote *)
(* references than workers; SpecOpen is the JSONOpen context manager, and  *)
(* SpecPrice, SpecFfwd, SpecSwap and SpecGroups are price_row_from_dict,   *)
(* ffwd, swap_references and process_groups on their own.                  *)
(*                                                                         *)
(* Python values are modelled as tagged records: None is [t |-> "null"],   *)
(* a str is [t |-> "string", s |-> ..], an int is [t |-> "number",         *)
(* n |-> ..], a list is [t |-> "array", el |-> <<..>>] and a dict is       *)
(* [t |-> "map", kv |-> << <<key, value>>, .. >>] in insertion order.      *)
(* A prefix is the dotted string ijson builds ('' at top level).           *)
(***************************************************************************)
EXTENDS Integers, Sequences, FiniteSets, TLC

(***************************************************************************)
(* Python values                                                           *)
(***************************************************************************)
None == [t |-> "null"]
JStr(s) == [t |-> "string", s |-> s]
JNum(n) == [t |-> "number", n |-> n]
JArr(el) == [t |-> "array", el |-> el]
JMap(kv) == [t |-> "map", kv |-> kv]

\* bool(v): None, '', 0, [] and {} are false, anything else is true
Truthy(v) ==
    CASE v.t = "null" -> FALSE
      [] v.t = "string" -> v.s # ""
      [] v.t = "number" -> v.n # 0
      [] v.t = "array" -> v.el # <<>>
      [] v.t = "map" -> v.kv # <<>>
      [] OTHER -> TRUE

\* a variant of PyStr that is repr(v): a str is put in quotes
PyRepr(v) == IF v.t = "number" THEN JStr(ToString(v.n)) ELSE JStr("'" \o v.s \o "'")

\* str(v) of a scalar: a str is itself, an int is printed in decimal
PyStr(v) == IF v.t = "number" THEN JStr(ToString(v.n)) ELSE v

HasKey(m, k) == \E i \in 1..Len(m.kv) : m.kv[i][1] = k

\* dict.get(k, default)
GetOr(m, k, default) ==
    IF HasKey(m, k)
    THEN m.kv[CHOOSE i \in 1..Len(m.kv) : m.kv[i][1] = k][2]
    ELSE default

\* dict.get(k)
Get(m, k) == GetOr(m, k, None)

\* d[k] = v: an existing key keeps its place, a new key goes last
SetKey(m, k, v) ==
    IF HasKey(m, k)
    THEN JMap([i \in 1..Len(m.kv) |->
                 IF m.kv[i][1] = k THEN <<k, v>> ELSE m.kv[i]])
    ELSE JMap(Append(m.kv, <<k, v>>))

\* d.pop(k)
DelKey(m, k) == JMap(SelectSeq(m.kv, LAMBDA p : p[1] # k))

(***************************************************************************)
(* The event parser (ijson.parse): the events of a JSON value              *)
(***************************************************************************)
ChildPrefix(prefix, key) == IF prefix = "" THEN key ELSE prefix \o "." \o key

RECURSIVE EventsOf(_, _)
RECURSIVE EventsOfMembers(_, _, _)
RECURSIVE EventsOfElements(_, _, _)
EventsOf(prefix, v) ==
    CASE v.t = "map" ->
           <<<<prefix, "start_map", None>>>>
           \o EventsOfMembers(prefix, v.kv, 1)
           \o <<<<prefix, "end_map", None>>>>
      [] v.t = "array" ->
           <<<<prefix, "start_array", None>>>>
           \o EventsOfElements(ChildPrefix(prefix, "item"), v.el, 1)
           \o <<<<prefix, "end_array", None>>>>
      [] OTHER -> <<<<prefix, v.t, v>>>>

EventsOfMembers(prefix, kv, i) ==
    IF i > Len(kv) THEN <<>>
    ELSE <<<<prefix, "map_key", JStr(kv[i][1])>>>>
         \o EventsOf(ChildPrefix(prefix, kv[i][1]), kv[i][2])
         \o EventsOfMembers(prefix, kv, i + 1)

EventsOfElements(prefix, el, i) ==
    IF i > Len(el) THEN <<>>
    ELSE EventsOf(prefix, el[i]) \o EventsOfElements(prefix, el, i + 1)

(***************************************************************************)
(* ijson.ObjectBuilder.  The builder shares the objects it builds with     *)
(* whoever holds them, so objects live in a heap and are named by          *)
(* reference: [t |-> "ref", id |-> i] is heap[i].  containers is the       *)
(* stack of setters: initial_set, a dict's setter or a list's append.      *)
(***************************************************************************)
Ref(i) == [t |-> "ref", id |-> i]

NewBuilder ==
    [has |-> FALSE, value |-> None, containers |-> <<[c |-> "initial_set", id |-> 0]>>,
     key |-> "", heap |-> <<>>, err |-> FALSE]

\* containers[-1](v)
CallTop(b, v) ==
    LET top == b.containers[Len(b.containers)] IN
    CASE top.c = "initial_set" -> [b EXCEPT !.value = v, !.has = TRUE]
      [] top.c = "setter" ->
           [b EXCEPT !.heap[top.id] = SetKey(b.heap[top.id], b.key, v)]
      [] top.c = "append" ->
           [b EXCEPT !.heap[top.id] = JArr(Append(b.heap[top.id].el, v))]

\* ObjectBuilder.event(event, value); err is an IndexError on an empty stack
BuilderEvent(b, event, value) ==
    LET new == Len(b.heap) + 1 IN
    CASE event = "map_key" -> [b EXCEPT !.key = value.s]
      [] event \in {"end_map", "end_array"} ->
           IF b.containers = <<>> THEN [b EXCEPT !.err = TRUE]
           ELSE [b EXCEPT !.containers = SubSeq(b.containers, 1, Len(b.containers) - 1)]
      [] b.containers = <<>> -> [b EXCEPT !.err = TRUE]
      [] event = "start_map" ->
           [CallTop([b EXCEPT !.heap = Append(b.heap, JMap(<<>>))], Ref(new))
              EXCEPT !.containers = Append(b.containers, [c |-> "setter", id |-> new])]
      [] event = "start_array" ->
           [CallTop([b EXCEPT !.heap = Append(b.heap, JArr(<<>>))], Ref(new))
              EXCEPT !.containers = Append(b.containers, [c |-> "append", id |-> new])]
      [] OTHER -> CallTop(b, value)

\* the value a reference stands for, with the objects it holds
RECURSIVE Deref(_, _)
Deref(heap, v) ==
    IF v.t # "ref" THEN v
    ELSE LET o == heap[v.id] IN
         IF o.t = "map"
         THEN JMap([i \in 1..Len(o.kv) |-> <<o.kv[i][1], Deref(heap, o.kv[i][2])>>])
         ELSE JArr([i \in 1..Len(o.el) |-> Deref(heap, o.el[i])])

(***************************************************************************)
(* str methods: strip, comparison (by code point), json.dumps              *)
(***************************************************************************)
Whitespace == {" ", "\t", "\n"}

RECURSIVE LStrip(_)
LStrip(s) == IF s # "" /\ Head(s) \in Whitespace THEN LStrip(Tail(s)) ELSE s

RECURSIVE RStrip(_)
RStrip(s) ==
    IF s # "" /\ SubSeq(s, Len(s), Len(s)) \in Whitespace
    THEN RStrip(SubSeq(s, 1, Len(s) - 1))
    ELSE s

\* str.strip()
Strip(s) == RStrip(LStrip(s))

\* the characters the model's strings are made of, in code point order
Alphabet == "\t\n \"+,-./0123456789:ABCDEFGHIJKLMNOPQRSTUVWXYZ[]_abcdefghijklmnopqrstuvwxyz"

RECURSIVE CharRankFrom(_, _)
CharRankFrom(c, i) ==
    IF i > Len(Alphabet) \/ SubSeq(Alphabet, i, i) = c THEN i
    ELSE CharRankFrom(c, i + 1)

CharRank(c) == CharRankFrom(c, 1)

\* a < b on str
RECURSIVE StrLess(_, _)
StrLess(a, b) ==
    CASE b = "" -> FALSE
      [] a = "" -> TRUE
      [] Head(a) = Head(b) -> StrLess(Tail(a), Tail(b))
      [] OTHER -> CharRank(Head(a)) < CharRank(Head(b))

\* sorted(list of str)
SortedStrs(el) == SortSeq(el, LAMBDA a, b : StrLess(a.s, b.s))

\* json.dumps(list of str)
RECURSIVE JsonDumpsFrom(_, _)
JsonDumpsFrom(el, i) ==
    IF i > Len(el) THEN ""
    ELSE (IF i > 1 THEN ", " ELSE "") \o "\"" \o el[i].s \o "\""
         \o JsonDumpsFrom(el, i + 1)

JsonDumps(el) == JStr("[" \o JsonDumpsFrom(el, 1) \o "]")

(***************************************************************************)
(* Hashes.  dicthasher is SHA-256 of the key-sorted JSON text of the dict, *)
(* cut to 8 bytes: it is modelled by the dict's canonical form (its keys   *)
(* in no order), so equal dicts have equal hashes and collisions are       *)
(* left out.                                                               *)
(***************************************************************************)
Keys(m) == {m.kv[i][1] : i \in 1..Len(m.kv)}

dicthasher(data) == [t |-> "hash", of |-> [k \in Keys(data) |-> Get(data, k)]]

append_hash(item, name) == SetKey(item, name, dicthasher(item))

(***************************************************************************)
(* NPI filtering (process_group .. process_in_network)                     *)
(***************************************************************************)
Dropped == None

\* process_arr(func, arr): the truthy results of func, in order
\* (processed_items holds func(item) for each item of arr)
process_arr(processed_items) == SelectSeq(processed_items, Truthy)

NpiInFilter(n, npi_filter) == n.s \in npi_filter

\* a variant of process_group without "if group['npi']": a group none of
\* whose NPIs is in the filter is returned with an empty list
process_group_keeps_empty(group, npi_filter) ==
    LET strs == [i \in 1..Len(Get(group, "npi").el) |-> PyStr(Get(group, "npi").el[i])]
        kept == SelectSeq(strs, LAMBDA n : NpiInFilter(n, npi_filter))
    IN  IF npi_filter = {} THEN SetKey(group, "npi", JArr(strs))
        ELSE SetKey(group, "npi", JArr(kept))

process_group(group, npi_filter) ==
    LET strs == [i \in 1..Len(Get(group, "npi").el) |-> PyStr(Get(group, "npi").el[i])]
        kept == SelectSeq(strs, LAMBDA n : NpiInFilter(n, npi_filter))
    IN  IF npi_filter = {} THEN SetKey(group, "npi", JArr(strs))
        ELSE IF kept # <<>> THEN SetKey(group, "npi", JArr(kept))
        ELSE Dropped

process_groups(groups, npi_filter) ==
    JArr(process_arr([i \in 1..Len(groups.el) |-> process_group(groups.el[i], npi_filter)]))

process_reference(reference, npi_filter) ==
    LET groups == process_groups(Get(reference, "provider_groups"), npi_filter) IN
    IF Truthy(groups)
    THEN JMap(<< <<"provider_group_id", Get(reference, "provider_group_id")>>,
                 <<"provider_groups", groups>> >>)
    ELSE Dropped

\* a variant of process_rate without "if rate.get('provider_groups')": a rate
\* is returned whether or not it has groups left
process_rate_keeps_all(rate, npi_filter) ==
    LET groups == Get(rate, "provider_groups") IN
    IF Truthy(groups)
    THEN SetKey(rate, "provider_groups", process_groups(groups, npi_filter))
    ELSE rate

process_rate(rate, npi_filter) ==
    LET groups == Get(rate, "provider_groups")
        rate1 == IF Truthy(groups)
                 THEN SetKey(rate, "provider_groups", process_groups(groups, npi_filter))
                 ELSE rate
    IN  IF Truthy(Get(rate1, "provider_groups")) THEN rate1 ELSE Dropped

process_rates(rates, npi_filter) ==
    JArr(process_arr([i \in 1..Len(rates.el) |-> process_rate(rates.el[i], npi_filter)]))

\* one iteration of process_in_network: the item it yields, or Dropped
process_in_network(in_network_item, npi_filter) ==
    LET rates == process_rates(Get(in_network_item, "negotiated_rates"), npi_filter) IN
    IF Truthy(rates) THEN SetKey(in_network_item, "negotiated_rates", rates)
    ELSE Dropped

(***************************************************************************)
(* swap_references.  reference_map is a function from provider_group_id    *)
(* to the list of groups; the empty function also stands for None.         *)
(***************************************************************************)
RECURSIVE addl_groups(_, _, _)
addl_groups(references, reference_map, i) ==
    IF i > Len(references) THEN <<>>
    ELSE (IF references[i] \in DOMAIN reference_map
          THEN reference_map[references[i]].el ELSE <<>>)
         \o addl_groups(references, reference_map, i + 1)

swap_rate(rate, reference_map) ==
    LET references == Get(rate, "provider_references")
        groups == GetOr(rate, "provider_groups", JArr(<<>>))
    IN  IF ~Truthy(references) THEN rate
        ELSE SetKey(DelKey(rate, "provider_references"), "provider_groups",
                    JArr(groups.el \o addl_groups(references.el, reference_map, 1)))

\* one iteration of swap_references: the item it yields, or Dropped
swap_references(item, reference_map) ==
    LET rates == Get(item, "negotiated_rates").el
        swapped == [i \in 1..Len(rates) |-> swap_rate(rates[i], reference_map)]
        kept == SelectSeq(swapped, LAMBDA r : Truthy(Get(r, "provider_groups")))
    IN  IF DOMAIN reference_map = {} THEN item
        ELSE IF kept # <<>> THEN SetKey(item, "negotiated_rates", JArr(kept))
        ELSE Dropped

(***************************************************************************)
(* Rows (plan_row_from_dict .. prices_groups_rows_from_dicts)              *)
(***************************************************************************)
PlanKeys ==
    <<"reporting_entity_name", "reporting_entity_type", "plan_name", "plan_id",
      "plan_id_type", "plan_market_type", "last_updated_on", "version">>

CodeKeys == <<"billing_code_type", "billing_code_type_version", "billing_code">>

PriceKeys ==
    <<"billing_class", "negotiated_type", "expiration_date", "negotiated_rate",
      "additional_information">>

optional_json_keys == <<"service_code", "billing_code_modifier">>

\* Path(filename).stem.split('.')[0]: the basename up to its first dot
RECURSIVE Basename(_)
Basename(path) ==
    IF \E i \in 1..Len(path) : SubSeq(path, i, i) = "/"
    THEN Basename(Tail(path)) ELSE path

RECURSIVE FirstSegment(_)
FirstSegment(name) ==
    IF name = "" \/ Head(name) = "." THEN ""
    ELSE Head(name) \o FirstSegment(Tail(name))

filename_hasher(filename) ==
    dicthasher(JMap(<< <<"filename", JStr(FirstSegment(Basename(filename)))>> >>))

plan_row_from_dict(plan) ==
    append_hash(JMap([i \in 1..Len(PlanKeys) |-> <<PlanKeys[i], Get(plan, PlanKeys[i])>>]),
                "plan_hash")

file_row_from_filename(filename, filename_hash, url) ==
    JMap(<< <<"filename", JStr(FirstSegment(Basename(filename)))>>,
            <<"filename_hash", filename_hash>>,
            <<"url", JStr(url)>> >>)

plan_file_row_from_row(plan_row, filename_hash) ==
    JMap(<< <<"plan_hash", Get(plan_row, "plan_hash")>>,
            <<"filename_hash", filename_hash>> >>)

\* in_network_item[key].strip() raises on a missing key or a value not a str
CodeRowRaises(in_network_item) ==
    \E i \in 1..Len(CodeKeys) : Get(in_network_item, CodeKeys[i]).t # "string"

code_row_from_dict(in_network_item) ==
    append_hash(JMap([i \in 1..Len(CodeKeys) |->
                        <<CodeKeys[i], JStr(Strip(Get(in_network_item, CodeKeys[i]).s))>>]),
                "code_hash")

\* price_row[key] = json.dumps([value.strip() for value in sorted(price[key])])
RECURSIVE WithOptionalJsonKeys(_, _, _)
WithOptionalJsonKeys(price_row, price, i) ==
    IF i > Len(optional_json_keys) THEN price_row
    ELSE LET key == optional_json_keys[i]
             sorted_value == [j \in 1..Len(Get(price, key).el) |->
                                JStr(Strip(SortedStrs(Get(price, key).el)[j].s))]
         IN  WithOptionalJsonKeys(
                 IF Truthy(Get(price, key))
                 THEN SetKey(price_row, key, JsonDumps(sorted_value))
                 ELSE price_row,
                 price, i + 1)

price_row_from_dict(price, code_hash, filename_hash) ==
    LET price_row == JMap([i \in 1..Len(PriceKeys) |->
                             <<PriceKeys[i], Get(price, PriceKeys[i])>>])
        with_json == WithOptionalJsonKeys(price_row, price, 1)
        with_hashes == SetKey(SetKey(with_json, "code_hash", code_hash),
                              "filename_hash", filename_hash)
    IN  append_hash(with_hashes, "price_hash")

price_rows_from_dicts(prices, code_hash, filename_hash) ==
    [i \in 1..Len(prices) |-> price_row_from_dict(prices[i], code_hash, filename_hash)]

group_row_from_dict(group) ==
    append_hash(
        JMap(<< <<"npi_numbers", JsonDumps(SortedStrs(Get(group, "npi").el))>>,
                <<"tin_type", Get(Get(group, "tin"), "type")>>,
                <<"tin_value", Get(Get(group, "tin"), "value")>> >>),
        "provider_group_hash")

group_rows_from_dicts(groups) ==
    [i \in 1..Len(groups) |-> group_row_from_dict(groups[i])]

\* for price_row in price_rows: for group_row in group_rows: ...
prices_groups_rows_from_dicts(price_rows, group_rows) ==
    [k \in 1..(Len(price_rows) * Len(group_rows)) |->
        LET p == ((k - 1) \div Len(group_rows)) + 1
            g == ((k - 1) % Len(group_rows)) + 1
        IN  JMap(<< <<"provider_group_hash", Get(group_rows[g], "provider_group_hash")>>,
                    <<"price_hash", Get(price_rows[p], "price_hash")>> >>)]

(***************************************************************************)
(* The stream navigator.  A parser is a generator over the events of the   *)
(* file: stream is the whole event sequence and pos the number of events   *)
(* already consumed.  StopIteration stands for the exception.              *)
(***************************************************************************)
StopIteration == 0 - 1

\* a keyword argument left at its default None
NoArg == "<None>"

\* for ... in parser: if <match>: break / else: raise StopIteration
\* (matches holds the positions of the events that satisfy <match>)
FfwdLoop(matches, pos) ==
    LET hits == {i \in matches : i > pos} IN
    IF hits = {} THEN StopIteration
    ELSE CHOOSE i \in hits : \A j \in hits : i <= j

ffwd(stream, pos, to_prefix, to_event, to_value) ==
    LET p1 == IF to_value = None
              THEN FfwdLoop({i \in 1..Len(stream) :
                                stream[i][1] = to_prefix /\ stream[i][2] = to_event}, pos)
              ELSE pos
        p2 == IF p1 # StopIteration /\ to_prefix = NoArg
              THEN FfwdLoop({i \in 1..Len(stream) :
                                stream[i][2] = to_event /\ stream[i][3] = to_value}, p1)
              ELSE p1
        p3 == IF p2 # StopIteration /\ to_event = NoArg
              THEN FfwdLoop({i \in 1..Len(stream) :
                                stream[i][1] = to_prefix /\ stream[i][3] = to_value}, p2)
              ELSE p2
    IN  p3

\* the None that peek returns for an exhausted generator
Exhausted == <<NoArg, NoArg, None>>

\* peek(gen): the next event
peek(stream, pos) == IF pos >= Len(stream) THEN Exhausted ELSE stream[pos + 1]

\* what next(gen) leaves of the generator
AfterPeek(stream, pos) == IF pos >= Len(stream) THEN pos ELSE pos + 1

(***************************************************************************)
(* Reads of the builder made by the generators                             *)
(***************************************************************************)
IsList(b, v) == v.t = "ref" /\ b.heap[v.id].t = "array"
IsDict(b, v) == v.t = "ref" /\ b.heap[v.id].t = "map"

\* len(builder.value) is defined on a str, a list and a dict
HasLen(b) == b.value.t \in {"string", "ref"}

PyLen(b) ==
    CASE b.value.t = "string" -> Len(b.value.s)
      [] IsList(b, b.value) -> Len(b.heap[b.value.id].el)
      [] OTHER -> Len(b.heap[b.value.id].kv)

\* builder.value.pop() needs a non-empty list
CanPopValue(b) == IsList(b, b.value) /\ b.heap[b.value.id].el # <<>>

PoppedValue(b) == LET el == b.heap[b.value.id].el IN el[Len(el)]

PopValue(b) ==
    LET el == b.heap[b.value.id].el IN
    [b EXCEPT !.heap[b.value.id] = JArr(SubSeq(el, 1, Len(el) - 1))]

PopContainer(b) ==
    [b EXCEPT !.containers = SubSeq(b.containers, 1, Len(b.containers) - 1)]

(***************************************************************************)
(* get_plan, gen_references: the body of their loop for the next event     *)
(***************************************************************************)
\* a variant of get_plan that returns at the map_key event of one of the two
\* keys only (as with "if event == 'map_key' and value in (...)")
get_plan_at_key(stream, pos, b) ==
    LET e == stream[pos + 1]
        b1 == BuilderEvent(b, e[2], e[3])
    IN  IF e[2] = "map_key" /\ e[3] \in {JStr("provider_references"), JStr("in_network")}
        THEN [does |-> "return", pos |-> pos + 1, b |-> b1,
              plan |-> Deref(b1.heap, b1.value)]
        ELSE [does |-> "continue", pos |-> pos + 1, b |-> b1, plan |-> None]

get_plan(stream, pos, b) ==
    LET e == stream[pos + 1]
        b1 == BuilderEvent(b, e[2], e[3])
    IN  IF e[3] \in {JStr("provider_references"), JStr("in_network")}
        THEN [does |-> "return", pos |-> pos + 1, b |-> b1,
              plan |-> Deref(b1.heap, b1.value)]
        ELSE [does |-> "continue", pos |-> pos + 1, b |-> b1, plan |-> None]

gen_references(stream, pos, b) ==
    LET e == stream[pos + 1]
        b1 == BuilderEvent(b, e[2], e[3])
        stop == [does |-> "raise", pos |-> pos + 1, b |-> b1, reference |-> None]
    IN  CASE b1.err -> stop
          [] e[1] = "provider_references.item" /\ e[2] = "end_map" ->
               IF CanPopValue(b1)
               THEN [does |-> "yield", pos |-> pos + 1, b |-> PopValue(b1),
                     reference |-> Deref(b1.heap, PoppedValue(b1))]
               ELSE stop
          [] e[1] = "provider_references" /\ e[2] = "end_array" ->
               [does |-> "return", pos |-> pos + 1, b |-> b1, reference |-> None]
          [] OTHER -> [does |-> "continue", pos |-> pos + 1, b |-> b1, reference |-> None]

(***************************************************************************)
(* skip_item_by_code, one iteration of gen_in_network_items                *)
(***************************************************************************)
CodeFilteredOut(item, code_filter) ==
    LET code_type == Get(item, "billing_code_type")
        code == Get(item, "billing_code")
    IN  /\ Truthy(code) /\ Truthy(code_type) /\ code_filter # {}
        /\ <<code_type, PyStr(code)>> \notin code_filter

ArrangementNotFfs(item) ==
    LET arrangement == Get(item, "negotiation_arrangement") IN
    Truthy(arrangement) /\ arrangement # JStr("ffs")

\* a variant of skip_item_by_code without "builder.containers.pop()"
skip_item_keeps_container(stream, pos, b, code_filter) ==
    LET list == b.heap[b.value.id].el
        item == Deref(b.heap, list[Len(list)])
        to == ffwd(stream, pos, "in_network.item", "end_map", None)
    IN  IF ~(IsList(b, b.value) /\ IsDict(b, list[Len(list)]))
        THEN [raised |-> "AttributeError", pos |-> pos, b |-> b]
        ELSE IF ~(CodeFilteredOut(item, code_filter) \/ ArrangementNotFfs(item))
        THEN [raised |-> "", pos |-> pos, b |-> b]
        ELSE IF to = StopIteration
        THEN [raised |-> "RuntimeError", pos |-> Len(stream), b |-> b]
        ELSE [raised |-> "", pos |-> to, b |-> PopValue(b)]

skip_item_by_code(stream, pos, b, code_filter) ==
    LET list == b.heap[b.value.id].el
        item == Deref(b.heap, list[Len(list)])
        to == ffwd(stream, pos, "in_network.item", "end_map", None)
    IN  IF ~(IsList(b, b.value) /\ IsDict(b, list[Len(list)]))
        THEN [raised |-> "AttributeError", pos |-> pos, b |-> b]
        ELSE IF ~(CodeFilteredOut(item, code_filter) \/ ArrangementNotFfs(item))
        THEN [raised |-> "", pos |-> pos, b |-> b]
        ELSE IF to = StopIteration
        THEN [raised |-> "RuntimeError", pos |-> Len(stream), b |-> b]
        ELSE [raised |-> "", pos |-> to, b |-> PopContainer(PopValue(b))]

\* the body of "for prefix, event, value in parser" for the next event
gen_in_network_items(stream, pos, b, code_filter) ==
    LET e == stream[pos + 1]
        b1 == BuilderEvent(b, e[2], e[3])
        skip == IF b1.has /\ HasLen(b1) /\ PyLen(b1) > 0
                THEN skip_item_by_code(stream, pos + 1, b1, code_filter)
                ELSE [raised |-> "", pos |-> pos + 1, b |-> b1]
        stop == [does |-> "raise", pos |-> pos + 1, b |-> b1, item |-> None]
    IN  CASE b1.err -> stop
          [] b1.has /\ ~HasLen(b1) -> stop
          [] skip.raised # "" -> [stop EXCEPT !.pos = skip.pos]
          [] e[1] = "in_network.item" /\ e[2] = "end_map" ->
               IF CanPopValue(skip.b)
               THEN [does |-> "yield", pos |-> skip.pos, b |-> PopValue(skip.b),
                     item |-> Deref(skip.b.heap, PoppedValue(skip.b))]
               ELSE [stop EXCEPT !.pos = skip.pos]
          [] e[1] = "in_network" /\ e[2] = "end_array" ->
               [does |-> "return", pos |-> skip.pos, b |-> skip.b, item |-> None]
          [] OTHER -> [does |-> "continue", pos |-> skip.pos, b |-> skip.b, item |-> None]

(***************************************************************************)
(* make_reference_map: the producer loop and the final dict                *)
(***************************************************************************)
\* reference['provider_group_id'] or reference['provider_groups'] is missing
ReferenceRaises(reference) ==
    IF Truthy(Get(reference, "location"))
    THEN ~HasKey(reference, "provider_group_id")
    ELSE \/ ~HasKey(reference, "provider_groups")
         \/ ~HasKey(reference, "provider_group_id")

\* {reference['provider_group_id']: reference['provider_groups'] for reference in ..}
ReferenceMapOf(processed) ==
    [id \in {Get(processed[i], "provider_group_id") : i \in 1..Len(processed)} |->
        LET last == CHOOSE i \in 1..Len(processed) :
                       /\ Get(processed[i], "provider_group_id") = id
                       /\ \A j \in (i + 1)..Len(processed) :
                              Get(processed[j], "provider_group_id") # id
        IN  Get(processed[last], "provider_groups")]

(***************************************************************************)
(* The files the run is started on.  A file is its JSON document; the      *)
(* families below vary the order of the top-level keys, the references     *)
(* (inline or remote, with what the network answers), the items (order of  *)
(* their keys, codes, arrangement, rates) and the two filters.             *)
(***************************************************************************)
NumWorkers == 2

MaxItems == 2

MaxRefs == 2

PlanMembers == [i \in 1..Len(PlanKeys) |-> <<PlanKeys[i], JStr("v" \o ToString(i))>>]

Group(npis, tin) ==
    JMap(<< <<"npi", JArr([i \in 1..Len(npis) |-> JNum(npis[i])])>>,
            <<"tin", JMap(<< <<"type", JStr("ein")>>, <<"value", JStr(tin)>> >>)>> >>)

G1 == Group(<<1, 2>>, "11")
G2 == Group(<<2>>, "22")
G3 == Group(<<3, 1>>, "33")
GNoNpi == Group(<<>>, "44")

Price(rate) ==
    JMap(<< <<"negotiated_type", JStr("negotiated")>>,
            <<"negotiated_rate", JNum(rate)>>,
            <<"service_code", JArr(<<JStr("11"), JStr(" 02")>>)>> >>)

Ids(ids) == JArr([i \in 1..Len(ids) |-> JNum(ids[i])])

RateOfGroups(prices, groups) ==
    JMap(<< <<"negotiated_prices", JArr(prices)>>, <<"provider_groups", JArr(groups)>> >>)

RateOfReferences(prices, ids) ==
    JMap(<< <<"provider_references", Ids(ids)>>, <<"negotiated_prices", JArr(prices)>> >>)

RateOfBoth(prices, groups, ids) ==
    JMap(<< <<"provider_groups", JArr(groups)>>, <<"negotiated_prices", JArr(prices)>>,
            <<"provider_references", Ids(ids)>> >>)

Inline(id, groups) ==
    JMap(<< <<"provider_group_id", JNum(id)>>, <<"provider_groups", JArr(groups)>> >>)

Remote(id, url) ==
    JMap(<< <<"provider_group_id", JNum(id)>>, <<"location", JStr(url)>> >>)

\* what the network answers: a status (0: no response, the request raises)
\* and the body read
Net ==
    [u \in {"ok/g1", "ok/g2", "missing", "down", "bad"} |->
       CASE u = "ok/g1" ->
              [status |-> 200, body |-> JMap(<< <<"provider_groups", JArr(<<G1>>)>> >>)]
         [] u = "ok/g2" ->
              [status |-> 200,
               body |-> JMap(<< <<"provider_groups", JArr(<<G2, G3>>)>> >>)]
         [] u = "missing" ->
              [status |-> 404, body |-> JMap(<< <<"provider_groups", JArr(<<G3>>)>> >>)]
         [] u = "down" -> [status |-> 0, body |-> None]
         [] OTHER -> [status |-> 200, body |-> JArr(<<>>)]]

\* the keys of an item in the order given; a value None leaves the key out
Item(order, values) ==
    LET present == SelectSeq(order, LAMBDA k : values[k] # None) IN
    JMap([i \in 1..Len(present) |-> <<present[i], values[present[i]]>>])

ItemValues(code_type, code, arrangement, rates) ==
    [billing_code_type |-> code_type, billing_code_type_version |-> JStr("2023"),
     billing_code |-> code, negotiation_arrangement |-> arrangement,
     negotiated_rates |-> rates]

KeyOrders ==
    { <<"negotiation_arrangement", "billing_code_type", "billing_code_type_version",
        "billing_code", "negotiated_rates">>,
      <<"billing_code", "negotiated_rates", "billing_code_type",
        "billing_code_type_version", "negotiation_arrangement">>,
      <<"negotiated_rates", "negotiation_arrangement", "billing_code_type_version",
        "billing_code_type", "billing_code">> }

CodesFirst == CHOOSE o \in KeyOrders : o[1] = "negotiation_arrangement"

ProbeRates == JArr(<<RateOfGroups(<<Price(10)>>, <<G2>>)>>)

\* an item that every filter of the families keeps
Probe == Item(CodesFirst, ItemValues(JStr("CPT"), JStr("99213"), JStr("ffs"), ProbeRates))

\* the top-level dict: the plan keys, then the keys of layout
Doc(layout, references, items, extra) ==
    JMap(PlanMembers \o
         [i \in 1..Len(layout) |->
            <<layout[i],
              CASE layout[i] = "provider_references" -> JArr(references)
                [] layout[i] = "in_network" -> JArr(items)
                [] OTHER -> extra>>])

Padded(items, n) == items \o [i \in 1..(n - Len(items)) |-> Probe]

InputOf(family, doc, code_filter, npi_filter) ==
    [family |-> family, doc |-> doc, stream |-> EventsOf("", doc),
     file |-> "/data/2023-01_plan.json.gz", url |-> "https://host/2023-01_plan.json.gz",
     code_filter |-> code_filter, npi_filter |-> npi_filter, net |-> Net]

CodeFilters == {{}, {<<JStr("CPT"), JStr("99213")>>}}

\* items by code, arrangement and order of keys
CodeItems ==
    { Item(o, ItemValues(t, c, a, ProbeRates)) :
        o \in KeyOrders,
        t \in {JStr("CPT")},
        c \in {JStr("99213"), JStr("99214"), JStr("")},
        a \in {None, JStr("ffs"), JStr("bundle"), JStr("")} }
    \cup
    { Item(CodesFirst, ItemValues(JStr(tc[1]), tc[2], None, ProbeRates)) :
        tc \in {<<"HCPCS", JStr("99213")>>, <<"", JStr("99214")>>,
                <<"CPT", JNum(99213)>>, <<"CPT", JNum(0)>>} }

CodeFamily ==
    { InputOf("code", Doc(<<"in_network">>, <<>>, Padded(<<it>>, n), None), cf, {}) :
        it \in CodeItems, n \in 1..MaxItems, cf \in CodeFilters }

\* items by their rates, with the references they use defined inline
RateLists ==
    { <<RateOfGroups(<<Price(10)>>, <<G1, G2>>)>>,
      <<RateOfGroups(<<Price(10), Price(20)>>, <<G3>>), RateOfGroups(<<Price(30)>>, <<G2>>)>>,
      <<RateOfGroups(<<>>, <<G1>>)>>,
      <<RateOfGroups(<<Price(10)>>, <<GNoNpi>>)>>,
      <<RateOfGroups(<<Price(10)>>, <<>>), RateOfReferences(<<Price(20)>>, <<1>>)>>,
      <<RateOfBoth(<<Price(10)>>, <<G2>>, <<2, 1>>)>>,
      <<RateOfReferences(<<Price(10)>>, <<3>>)>>,
      <<JMap(<< <<"provider_groups", JArr(<<G1>>)>> >>)>> }

RateItems ==
    { Item(CodesFirst, ItemValues(JStr("CPT"), JStr(" 99213"), None, JArr(rl))) :
        rl \in RateLists }
    \cup { Item(CodesFirst, ItemValues(JStr("CPT"), JStr("99213"), None, None)) }

NpiFilters == {{}, {"1"}, {"2"}, {"3"}, {"4"}}

RateFamily ==
    { InputOf("rate",
              Doc(<<"provider_references", "in_network">>,
                  <<Inline(1, <<G1, GNoNpi>>), Inline(2, <<G3>>)>>,
                  Padded(<<it>>, n), None),
              {}, nf) :
        it \in RateItems, n \in 1..MaxItems, nf \in NpiFilters }

\* the order of the top-level keys
Layouts ==
    { <<"provider_references", "in_network">>,
      <<"in_network", "provider_references">>,
      <<"in_network">>,
      <<"provider_references">>,
      <<"in_network", "provider_references", "comment">>,
      <<"provider_references", "comment", "in_network">>,
      <<"provider_references", "in_network", "comment">>,
      <<"in_network", "comment">>,
      <<"comment", "in_network", "provider_references">> }

ReferenceItem ==
    Item(CodesFirst,
         ItemValues(JStr("CPT"), JStr("99214"), None,
                    JArr(<<RateOfReferences(<<Price(10)>>, <<1, 2>>)>>)))

LayoutFamily ==
    { InputOf("layout", Doc(l, refs, Padded(<<ReferenceItem>>, MaxItems), extra), {}, {}) :
        l \in Layouts,
        refs \in {<<Inline(1, <<G1>>)>>, <<Remote(1, "ok/g1")>>},
        extra \in {JStr(""), JStr("2023")} }

\* the references: inline or remote, fetched or failing
References ==
    { Inline(1, <<G1>>), Inline(2, <<G2, G3>>),
      Remote(1, "ok/g1"), Remote(2, "ok/g2"),
      Remote(2, "missing"), Remote(2, "down"), Remote(1, "bad") }

ReferenceLists == UNION { [1..n -> References] : n \in 0..MaxRefs }

ReferenceFamily ==
    { InputOf("reference",
              Doc(<<"provider_references", "in_network">>, refs, <<ReferenceItem>>, None),
              {}, {}) :
        refs \in ReferenceLists }
    \cup
    { InputOf("reference",
              Doc(<<"in_network", "provider_references">>, <<r>>, <<ReferenceItem>>, None),
              {}, nf) :
        r \in References \cup {JMap(<< <<"provider_groups", JArr(<<G1>>)>> >>)},
        nf \in {{}, {"1"}} }

\* files that lack a plan key, or both provider_references and in_network,
\* or have the name of one of the two as the value of a key before them
PlanFamily ==
    { InputOf("plan", DelKey(Doc(<<"in_network">>, <<>>, <<Probe>>, None), key), {}, {}) :
        key \in {PlanKeys[i] : i \in 1..Len(PlanKeys)} }
    \cup
    { InputOf("plan", Doc(l, <<>>, <<>>, JStr("2023")), {}, {}) : l \in {<<>>, <<"comment">>} }
    \cup
    { InputOf("plan", Doc(<<"comment", "in_network">>, <<>>, <<Probe>>, JStr(v)), {}, {}) :
        v \in {"in_network", "provider_references"} }

\* an item skipped at its code, one skipped at its last key, one kept
SequenceItems ==
    { Item(CodesFirst, ItemValues(JStr("CPT"), JStr("99214"), JStr("ffs"), ProbeRates)),
      Item(<<"negotiated_rates", "billing_code_type", "billing_code_type_version",
             "billing_code", "negotiation_arrangement">>,
           ItemValues(JStr("CPT"), JStr("99213"), JStr("bundle"), ProbeRates)),
      Probe }

\* the sequences of kept and skipped items
SequenceFamily ==
    { InputOf("sequence", Doc(<<"in_network">>, <<>>, items, None),
              {<<JStr("CPT"), JStr("99213")>>}, {}) :
        items \in [1..MaxItems -> SequenceItems] }

Inputs ==
    CodeFamily \cup RateFamily \cup LayoutFamily \cup ReferenceFamily \cup PlanFamily
    \cup SequenceFamily

(***************************************************************************)
(* The run of json_mrf_to_csv                                              *)
(***************************************************************************)
VARIABLES
    input,                 \* url, file, doc, stream, code_filter, npi_filter, net
    pc,                    \* the place of the run in json_mrf_to_csv
    raised,                \* the exception that ended the run, "" if none
    parser,                \* Content.parser: events consumed, times the file was opened
    plan,                  \* Content.plan
    ref_map,               \* Content.ref_map
    builder,               \* the builder of gen_in_network_items
    queue,                 \* make_reference_map: the work items not yet taken
    unfinished,            \* queue._unfinished_tasks
    processed_references,  \* the shared result list
    tasks,                 \* the worker tasks
    session,               \* the shared aiohttp session
    cur,                   \* write_in_network_item: the item and its locals
    written,               \* the write_table calls made, in order
    yielded,               \* the items gen_in_network_items has yielded
    source,                \* a JSONOpen object and the files and streams around it
    call                   \* a call of a function on its own: arguments and result

vars == <<input, pc, raised, parser, plan, ref_map, builder, queue, unfinished,
          processed_references, tasks, session, cur, written, yielded, source, call>>

\* what a run of json_mrf_to_csv leaves alone
apart == <<source, call>>

resolver == <<queue, unfinished, processed_references, tasks, session>>

Workers == 1..NumWorkers

NoItem == [item |-> None, no |-> 0, rate |-> 0]

IdleTask == [st |-> "waiting", url |-> "", group_id |-> None]

Stream == input.stream

\* a variant of Raise in which json_mrf_to_csv goes on to write_plan when a
\* step fails (as with "finally: write_plan(...)")
RaiseThenWritePlan(exception) ==
    /\ pc' = "write_plan"
    /\ raised' = exception

\* no exception is caught in json_mrf_to_csv: the run ends
Raise(exception) ==
    /\ pc' = "raised"
    /\ raised' = exception

\* Content.start_conn: start_parser opens the file, get_plan makes its builder
StartConn ==
    /\ pc = "start_conn"
    /\ parser' = [pos |-> 0, opens |-> 1]
    /\ builder' = NewBuilder
    /\ pc' = "get_plan"
    /\ UNCHANGED <<apart, input, raised, plan, ref_map, resolver, cur, written, yielded>>

\* the next event of get_plan; InvalidMRF when the stream ends first
GetPlan ==
    /\ pc = "get_plan"
    /\ IF parser.pos >= Len(Stream)
       THEN Raise("InvalidMRF") /\ UNCHANGED <<parser, builder, plan>>
       ELSE \E r \in {get_plan(Stream, parser.pos, builder)} :
                /\ parser' = [parser EXCEPT !.pos = r.pos]
                /\ builder' = r.b
                /\ raised' = raised
                /\ IF r.does = "return"
                   THEN plan' = r.plan /\ pc' = "get_reference_map"
                   ELSE UNCHANGED <<plan, pc>>
    /\ UNCHANGED <<apart, input, ref_map, resolver, cur, written, yielded>>

\* _get_reference_map up to the call of make_reference_map, which makes the
\* queue, the worker tasks and the session
GetReferenceMap ==
    /\ pc = "get_reference_map"
    /\ \E at \in {IF peek(Stream, parser.pos) = <<"provider_references", "start_array", None>>
                  THEN parser.pos
                  ELSE ffwd(Stream, parser.pos, "", NoArg, JStr("provider_references"))} :
           IF at = StopIteration
           THEN /\ parser' = [parser EXCEPT !.pos = Len(Stream)]
                /\ pc' = "prepare_in_network"
                /\ UNCHANGED <<builder, resolver>>
           ELSE /\ parser' = [parser EXCEPT !.pos = at]
                /\ pc' = "gen_references"
                /\ builder' = NewBuilder
                /\ queue' = <<>>
                /\ unfinished' = 0
                /\ processed_references' = <<>>
                /\ tasks' = [w \in Workers |-> IdleTask]
                /\ session' = "open"
    /\ ref_map' = <<>>
    /\ UNCHANGED <<apart, input, raised, plan, cur, written, yielded>>

\* the next event of gen_references and, for a reference it yields, the body
\* of "for reference in references" in make_reference_map
GenReferences ==
    /\ pc = "gen_references"
    /\ IF parser.pos >= Len(Stream)
       THEN /\ pc' = "queue_join"
            /\ UNCHANGED <<raised, parser, builder, queue, unfinished,
                           processed_references>>
       ELSE \E r \in {gen_references(Stream, parser.pos, builder)} :
            \E inline \in {IF r.does = "yield" /\ ~ReferenceRaises(r.reference)
                              /\ ~Truthy(Get(r.reference, "location"))
                           THEN process_reference(r.reference, input.npi_filter)
                           ELSE Dropped} :
                /\ parser' = [parser EXCEPT !.pos = r.pos]
                /\ builder' = r.b
                /\ CASE r.does = "raise" ->
                          /\ Raise("IndexError")
                          /\ UNCHANGED <<queue, unfinished, processed_references>>
                     [] r.does = "return" ->
                          /\ pc' = "queue_join"
                          /\ UNCHANGED <<raised, queue, unfinished, processed_references>>
                     [] r.does = "yield" /\ ReferenceRaises(r.reference) ->
                          /\ Raise("KeyError")
                          /\ UNCHANGED <<queue, unfinished, processed_references>>
                     [] r.does = "yield" /\ Truthy(Get(r.reference, "location")) ->
                          /\ queue' = Append(queue,
                                 [url |-> Get(r.reference, "location").s,
                                  group_id |-> Get(r.reference, "provider_group_id")])
                          /\ unfinished' = unfinished + 1
                          /\ UNCHANGED <<pc, raised, processed_references>>
                     [] r.does = "yield" /\ Truthy(inline) ->
                          /\ processed_references' = Append(processed_references, inline)
                          /\ UNCHANGED <<pc, raised, queue, unfinished>>
                     [] OTHER ->
                          UNCHANGED <<pc, raised, queue, unfinished, processed_references>>
    /\ UNCHANGED <<apart, input, plan, ref_map, tasks, session, cur, written, yielded>>

\* a worker's "session, url, group_id = await queue.get()"
WorkerGet(w) ==
    /\ pc = "queue_join"
    /\ tasks[w].st = "waiting"
    /\ queue # <<>>
    /\ tasks' = [tasks EXCEPT ![w] = [st |-> "get", url |-> Head(queue).url,
                                      group_id |-> Head(queue).group_id]]
    /\ queue' = Tail(queue)
    /\ UNCHANGED <<apart, input, pc, raised, parser, plan, ref_map, builder, unfinished,
                   processed_references, session, cur, written, yielded>>

\* a variant of ResponseOk that takes any response for a good one
AnyResponseOk(status) == status # 0

\* assert response.status == 200
ResponseOk(status) == status = 200

\* "response = await session.get(url)" returns or raises; "assert status == 200"
WorkerResponse(w) ==
    /\ pc = "queue_join"
    /\ tasks[w].st = "get"
    /\ LET status == input.net[tasks[w].url].status IN
       IF ResponseOk(status)
       THEN /\ tasks' = [tasks EXCEPT ![w].st = "read"]
            /\ unfinished' = unfinished
       ELSE /\ tasks' = [tasks EXCEPT ![w] =
                           IF status = 0 THEN [IdleTask EXCEPT !.st = "raised"]
                           ELSE IdleTask]
            /\ unfinished' = unfinished - 1
    /\ UNCHANGED <<apart, input, pc, raised, parser, plan, ref_map, builder, queue,
                   processed_references, session, cur, written, yielded>>

\* a variant of WithGroupId that leaves the fetched reference as it was read
WithoutGroupId(reference, group_id) == reference

\* reference['provider_group_id'] = group_id
WithGroupId(reference, group_id) == SetKey(reference, "provider_group_id", group_id)

\* "data = await response.read()" to the end of the loop body
WorkerRead(w) ==
    /\ pc = "queue_join"
    /\ tasks[w].st = "read"
    /\ LET body == input.net[tasks[w].url].body
           reference == process_reference(WithGroupId(body, tasks[w].group_id),
                                          input.npi_filter)
       IN  IF body.t # "map" \/ ~HasKey(body, "provider_groups")
           THEN /\ tasks' = [tasks EXCEPT ![w] = [IdleTask EXCEPT !.st = "raised"]]
                /\ processed_references' = processed_references
           ELSE /\ tasks' = [tasks EXCEPT ![w] = IdleTask]
                /\ processed_references' =
                       IF Truthy(reference)
                       THEN Append(processed_references, reference)
                       ELSE processed_references
    /\ unfinished' = unfinished - 1
    /\ UNCHANGED <<apart, input, pc, raised, parser, plan, ref_map, builder, queue,
                   session, cur, written, yielded>>

\* a variant of AfterJoin that sleeps inside the "async with" block, before
\* the session is closed
AfterJoinSleepFirst(at) ==
    CASE at = "queue_join" -> "sleep"
      [] at = "sleep" -> "session_close"
      [] at = "session_close" -> "cancel"

\* the statements of make_reference_map after "await queue.join()": the end
\* of the "async with" block, the sleep, the cancellation
AfterJoin(at) ==
    CASE at = "queue_join" -> "session_close"
      [] at = "session_close" -> "sleep"
      [] at = "sleep" -> "cancel"

\* a variant of JoinReturns that waits for the queue to be empty only
\* (as with "while not queue.empty()")
JoinReturnsWhenEmpty == queue = <<>>

\* Queue.join(): _unfinished_tasks is 0
JoinReturns == unfinished = 0

\* "await queue.join()" returns
QueueJoin ==
    /\ pc = "queue_join"
    /\ JoinReturns
    /\ pc' = AfterJoin(pc)
    /\ UNCHANGED <<apart, input, raised, parser, plan, ref_map, builder, resolver, cur,
                   written, yielded>>

\* the end of "async with aiohttp.client.ClientSession() as session"
SessionClose ==
    /\ pc = "session_close"
    /\ session' = "closed"
    /\ pc' = AfterJoin(pc)
    /\ UNCHANGED <<apart, input, raised, parser, plan, ref_map, builder, queue, unfinished,
                   processed_references, tasks, cur, written, yielded>>

\* "await asyncio.sleep(.250)"
Sleep ==
    /\ pc = "sleep"
    /\ pc' = AfterJoin(pc)
    /\ UNCHANGED <<apart, input, raised, parser, plan, ref_map, builder, resolver, cur,
                   written, yielded>>

\* "for task in tasks: task.cancel()"
CancelTasks ==
    /\ pc = "cancel"
    /\ tasks' = [w \in Workers |->
                   IF tasks[w].st = "raised" THEN tasks[w]
                   ELSE [tasks[w] EXCEPT !.st = "cancelled"]]
    /\ pc' = "gather"
    /\ UNCHANGED <<apart, input, raised, parser, plan, ref_map, builder, queue, unfinished,
                   processed_references, session, cur, written, yielded>>

\* "await asyncio.gather(...)" and the dict that make_reference_map returns
ReturnReferenceMap ==
    /\ pc = "gather"
    /\ ref_map' = ReferenceMapOf(processed_references)
    /\ pc' = "prepare_in_network"
    /\ UNCHANGED <<apart, input, raised, parser, plan, builder, resolver, cur, written,
                   yielded>>

NeedsReopen(peeked) == peeked \in {<<"", "end_map", None>>, Exhausted}

\* Content.prepare_in_network, and the builder of gen_in_network_items
PrepareInNetwork ==
    /\ pc = "prepare_in_network"
    /\ LET peeked == peek(Stream, parser.pos)
           to == ffwd(Stream, 0, "", NoArg, JStr("in_network"))
       IN  IF NeedsReopen(peeked)
           THEN IF to = StopIteration
                THEN /\ parser' = [pos |-> Len(Stream), opens |-> parser.opens + 1]
                     /\ Raise("StopIteration")
                ELSE /\ parser' = [pos |-> to, opens |-> parser.opens + 1]
                     /\ pc' = "gen_in_network_items"
                     /\ raised' = raised
           ELSE /\ parser' = [parser EXCEPT !.pos = AfterPeek(Stream, parser.pos)]
                /\ pc' = "gen_in_network_items"
                /\ raised' = raised
    /\ builder' = NewBuilder
    /\ UNCHANGED <<apart, input, plan, ref_map, resolver, cur, written, yielded>>

\* a variant of NextWrite that writes a rate's prices_provider_groups rows
\* before its provider_groups rows
NextWriteLinksFirst(at, rate, n) ==
    CASE at = "call" -> [pc |-> "write_codes", rate |-> 0]
      [] at = "write_codes" ->
           IF n = 0 THEN [pc |-> "gen_in_network_items", rate |-> 0]
           ELSE [pc |-> "write_prices", rate |-> 1]
      [] at = "write_prices" -> [pc |-> "write_prices_provider_groups", rate |-> rate]
      [] at = "write_prices_provider_groups" ->
           [pc |-> "write_provider_groups", rate |-> rate]
      [] at = "write_provider_groups" ->
           IF rate < n THEN [pc |-> "write_prices", rate |-> rate + 1]
           ELSE [pc |-> "gen_in_network_items", rate |-> 0]

\* a variant of NextWrite that writes the codes row after the rates
NextWriteCodesLast(at, rate, n) ==
    CASE at = "call" -> [pc |-> "write_prices", rate |-> 1]
      [] at = "write_prices" -> [pc |-> "write_provider_groups", rate |-> rate]
      [] at = "write_provider_groups" ->
           [pc |-> "write_prices_provider_groups", rate |-> rate]
      [] at = "write_prices_provider_groups" ->
           IF rate < n THEN [pc |-> "write_prices", rate |-> rate + 1]
           ELSE [pc |-> "write_codes", rate |-> rate]
      [] at = "write_codes" -> [pc |-> "gen_in_network_items", rate |-> 0]

\* the order of the write_table calls of write_in_network_item: from the call
\* ("call") or a write_table call at rate number rate of n, the next one
NextWrite(at, rate, n) ==
    CASE at = "call" -> [pc |-> "write_codes", rate |-> 0]
      [] at = "write_codes" ->
           IF n = 0 THEN [pc |-> "gen_in_network_items", rate |-> 0]
           ELSE [pc |-> "write_prices", rate |-> 1]
      [] at = "write_prices" -> [pc |-> "write_provider_groups", rate |-> rate]
      [] at = "write_provider_groups" ->
           [pc |-> "write_prices_provider_groups", rate |-> rate]
      [] at = "write_prices_provider_groups" ->
           IF rate < n THEN [pc |-> "write_prices", rate |-> rate + 1]
           ELSE [pc |-> "gen_in_network_items", rate |-> 0]

\* item['negotiated_rates'] is missing or no list
ItemRaises(item) == Get(item, "negotiated_rates").t # "array"

\* what swap_references and process_in_network make of a yielded item
ProcessedItem(item) ==
    LET swapped == swap_references(item, ref_map) IN
    IF swapped = Dropped THEN Dropped
    ELSE process_in_network(swapped, input.npi_filter)

\* the next event of gen_in_network_items, with what the generators downstream
\* (swap_references, process_in_network) do with a yielded item
GenInNetworkItems ==
    /\ pc = "gen_in_network_items"
    /\ IF parser.pos >= Len(Stream)
       THEN /\ pc' = "write_plan"
            /\ UNCHANGED <<raised, parser, builder, cur, yielded>>
       ELSE \E r \in {gen_in_network_items(Stream, parser.pos, builder,
                                                input.code_filter)} :
                /\ parser' = [parser EXCEPT !.pos = r.pos]
                /\ builder' = r.b
                /\ yielded' = IF r.does = "yield" THEN Append(yielded, r.item)
                              ELSE yielded
                /\ CASE r.does = "raise" ->
                          Raise("AttributeError") /\ cur' = cur
                     [] r.does = "return" ->
                          pc' = "write_plan" /\ UNCHANGED <<raised, cur>>
                     [] r.does = "yield" /\ ItemRaises(r.item) ->
                          Raise("KeyError") /\ cur' = cur
                     [] r.does = "yield" /\ ProcessedItem(r.item) # Dropped ->
                          /\ cur' = [item |-> ProcessedItem(r.item),
                                     no |-> cur.no + 1,
                                     rate |-> NextWrite("call", 0, 0).rate]
                          /\ pc' = NextWrite("call", 0, 0).pc
                          /\ raised' = raised
                     [] OTHER -> UNCHANGED <<pc, raised, cur>>
    /\ UNCHANGED <<apart, input, plan, ref_map, resolver, written>>

(***************************************************************************)
(* write_in_network_item and write_plan, one write_table call at a time    *)
(***************************************************************************)
Rates == Get(cur.item, "negotiated_rates").el

filename_hash == filename_hasher(input.file)

\* the locals of write_in_network_item for the rate it is at
code_hash == Get(code_row_from_dict(cur.item), "code_hash")

price_rows ==
    price_rows_from_dicts(Get(Rates[cur.rate], "negotiated_prices").el,
                          code_hash, filename_hash)

group_rows ==
    group_rows_from_dicts(GetOr(Rates[cur.rate], "provider_groups", JArr(<<>>)).el)

\* the rows of the write_table call the run is about to make
PendingRows ==
    CASE pc = "write_codes" -> <<code_row_from_dict(cur.item)>>
      [] pc = "write_prices" -> price_rows
      [] pc = "write_provider_groups" -> group_rows
      [] pc = "write_prices_provider_groups" ->
           prices_groups_rows_from_dicts(price_rows, group_rows)
      [] pc = "write_plan" ->
           <<file_row_from_filename(input.file, filename_hash, input.url)>>
      [] pc = "write_plans" -> <<plan_row_from_dict(plan)>>
      [] pc = "write_plans_files" ->
           <<plan_file_row_from_row(plan_row_from_dict(plan), filename_hash)>>

TableOf(at) ==
    CASE at = "write_codes" -> "codes"
      [] at = "write_prices" -> "prices"
      [] at = "write_provider_groups" -> "provider_groups"
      [] at = "write_prices_provider_groups" -> "prices_provider_groups"
      [] at = "write_plan" -> "files"
      [] at = "write_plans" -> "plans"
      [] at = "write_plans_files" -> "plans_files"

\* the statements before the write_table call raise
PendingRaises ==
    CASE pc \in {"write_plan", "write_plans", "write_plans_files"} -> FALSE
      [] CodeRowRaises(cur.item) -> TRUE
      [] pc = "write_codes" -> FALSE
      [] OTHER -> Get(Rates[cur.rate], "negotiated_prices").t # "array"

\* write_table(rows, tablename, out_dir)
write_table(rows) ==
    written' = Append(written, [table |-> TableOf(pc), rows |-> rows, item |-> cur.no])

\* one write_table call of write_in_network_item, with the statements before it
WriteInNetworkItem ==
    /\ pc \in {"write_codes", "write_prices", "write_provider_groups",
               "write_prices_provider_groups"}
    /\ IF PendingRaises
       THEN Raise("KeyError") /\ UNCHANGED <<cur, written>>
       ELSE LET next == NextWrite(pc, cur.rate, Len(Rates)) IN
            /\ write_table(PendingRows)
            /\ pc' = next.pc
            /\ raised' = raised
            /\ cur' = IF next.pc = "gen_in_network_items"
                      THEN [NoItem EXCEPT !.no = cur.no]
                      ELSE [cur EXCEPT !.rate = next.rate]
    /\ UNCHANGED <<apart, input, parser, plan, ref_map, builder, resolver, yielded>>

\* write_plan: the files row, the plans row, the plans_files row
WritePlan ==
    /\ pc \in {"write_plan", "write_plans", "write_plans_files"}
    /\ write_table(PendingRows)
    /\ pc' = CASE pc = "write_plan" -> "write_plans"
               [] pc = "write_plans" -> "write_plans_files"
               [] OTHER -> "done"
    /\ UNCHANGED <<apart, input, raised, parser, plan, ref_map, builder, resolver, cur,
                   yielded>>

(***************************************************************************)
(* Failures of the environment: the parser raises on a truncated or        *)
(* malformed stream, write_table raises with some of its rows written      *)
(***************************************************************************)
ParserRaises ==
    /\ pc \in {"get_plan", "get_reference_map", "gen_references",
               "prepare_in_network", "gen_in_network_items"}
    /\ Raise("IncompleteJSONError")
    /\ UNCHANGED <<apart, input, parser, plan, ref_map, builder, resolver, cur, written,
                   yielded>>

WriteRaises ==
    /\ pc \in {"write_codes", "write_prices", "write_provider_groups",
               "write_prices_provider_groups", "write_plan", "write_plans",
               "write_plans_files"}
    /\ ~PendingRaises
    /\ \E n \in 0..Len(PendingRows) : write_table(SubSeq(PendingRows, 1, n))
    /\ Raise("OSError")
    /\ UNCHANGED <<apart, input, parser, plan, ref_map, builder, resolver, cur, yielded>>

\* json_mrf_to_csv is called on one of the files
InitOn(inputs) ==
    /\ input \in inputs
    /\ pc = "start_conn"
    /\ raised = ""
    /\ parser = [pos |-> 0, opens |-> 0]
    /\ plan = None
    /\ ref_map = <<>>
    /\ builder = NewBuilder
    /\ queue = <<>>
    /\ unfinished = 0
    /\ processed_references = <<>>
    /\ tasks = [w \in Workers |-> IdleTask]
    /\ session = "none"
    /\ cur = NoItem
    /\ written = <<>>
    /\ yielded = <<>>
    /\ source = None
    /\ call = None

Init == InitOn(Inputs)

Next ==
    \/ StartConn
    \/ GetPlan
    \/ GetReferenceMap
    \/ GenReferences
    \/ \E w \in Workers : WorkerGet(w)
    \/ \E w \in Workers : WorkerResponse(w)
    \/ \E w \in Workers : WorkerRead(w)
    \/ QueueJoin
    \/ SessionClose
    \/ Sleep
    \/ CancelTasks
    \/ ReturnReferenceMap
    \/ PrepareInNetwork
    \/ GenInNetworkItems
    \/ WriteInNetworkItem
    \/ WritePlan
    \/ ParserRaises
    \/ WriteRaises

Spec == Init /\ [][Next]_vars

(***************************************************************************)
(* json_mrf_to_csv on files with more remote references than there are     *)
(* workers, some of them with the same provider_group_id                   *)
(***************************************************************************)
RemoteReferences ==
    { Remote(1, "ok/g1"), Remote(1, "ok/g2"), Remote(2, "missing"), Remote(2, "down"),
      Remote(1, "bad") }

ResolverFamily ==
    { InputOf("resolver",
              Doc(<<"provider_references", "in_network">>, refs, <<ReferenceItem>>, None),
              {}, {}) :
        refs \in [1..(NumWorkers + 1) -> RemoteReferences] }

InitResolver == InitOn(ResolverFamily)

SpecResolver == InitResolver /\ [][Next]_vars

(***************************************************************************)
(* JSONOpen, the context manager that opens an MRF: the class of           *)
(* processors/mrfutils.py and the class of mrfutils/helpers.py, which also *)
(* takes a zip archive, extracted into the downloads directory.  source    *)
(* holds the object (filename, suffix, is_remote, unzipped_filename, f),   *)
(* the members of the archive behind a .zip name, and the files of the     *)
(* downloads directory.                                                    *)
(***************************************************************************)
UpperCase == "ABCDEFGHIJKLMNOPQRSTUVWXYZ"

LowerCase == "abcdefghijklmnopqrstuvwxyz"

\* str.lower()
RECURSIVE Lower(_)
Lower(s) ==
    IF s = "" THEN ""
    ELSE LET c == Head(s)
             at == {i \in 1..Len(UpperCase) : SubSeq(UpperCase, i, i) = c}
         IN  (IF at = {} THEN c
              ELSE LET i == CHOOSE i \in at : TRUE IN SubSeq(LowerCase, i, i))
             \o Lower(Tail(s))

\* str.endswith(suffix)
EndsWith(s, suffix) ==
    /\ Len(s) >= Len(suffix)
    /\ SubSeq(s, Len(s) - Len(suffix) + 1, Len(s)) = suffix

\* str.find(sub) + 1 for a sub of one or more characters: 0 when absent
Find(s, sub) ==
    LET at == {i \in 1..Len(s) : i + Len(sub) - 1 <= Len(s)
                                 /\ SubSeq(s, i, i + Len(sub) - 1) = sub}
    IN  IF at = {} THEN 0 ELSE CHOOSE i \in at : \A j \in at : i <= j

\* urlparse(filename).scheme: the text before "://", "" without one
UrlScheme(filename) ==
    IF Find(filename, "://") > 1 THEN Lower(SubSeq(filename, 1, Find(filename, "://") - 1))
    ELSE ""

\* urlparse(filename).path: what follows the host of a URL, else the name
UrlPath(filename) ==
    IF UrlScheme(filename) = "" THEN filename
    ELSE LET rest == SubSeq(filename, Find(filename, "://") + 3, Len(filename)) IN
         IF Find(rest, "/") = 0 THEN ""
         ELSE SubSeq(rest, Find(rest, "/"), Len(rest))

RECURSIVE LStripDots(_)
LStripDots(name) == IF name # "" /\ Head(name) = "." THEN LStripDots(Tail(name)) ELSE name

\* ''.join(Path(path).suffixes): the name from its first inner dot on
Suffixes(path) ==
    LET name == LStripDots(Basename(path)) IN
    IF EndsWith(Basename(path), ".") \/ Find(name, ".") = 0 THEN ""
    ELSE SubSeq(name, Find(name, "."), Len(name))

\* Path(path).suffix: the name from its last dot on, '' when that dot is
\* the first or the last character
Suffix(path) ==
    LET name == Basename(path)
        dots == {i \in 1..Len(name) : SubSeq(name, i, i) = "."}
        i == CHOOSE i \in dots : \A j \in dots : j <= i
    IN  IF dots = {} \/ i = 1 \/ i = Len(name) THEN ""
        ELSE SubSeq(name, i, Len(name))

DOWNLOADS_DIR == "/processing/temp_downloads"

NoFile == [wrap |-> "", of |-> "", name |-> "", closed |-> FALSE]

\* JSONOpen.__init__ of processors/mrfutils.py: the object, or the exception
processors_init(filename) ==
    LET suffix == Suffixes(UrlPath(filename)) IN
    IF suffix \notin {".json.gz", ".json"}
    THEN [raises |-> "InvalidMRF", suffix |-> suffix, is_remote |-> FALSE]
    ELSE [raises |-> "", suffix |-> suffix,
          is_remote |-> UrlScheme(filename) \in {"http", "https"}]

\* JSONOpen.__init__ of mrfutils/helpers.py
helpers_init(filename) ==
    LET suffix == Suffixes(UrlPath(filename)) IN
    IF ~(\/ EndsWith(Lower(suffix), ".json.gz")
         \/ EndsWith(Lower(suffix), ".json")
         \/ EndsWith(Lower(suffix), ".zip"))
    THEN [raises |-> "InvalidMRF", suffix |-> suffix, is_remote |-> FALSE]
    ELSE [raises |-> "", suffix |-> suffix,
          is_remote |-> UrlScheme(filename) \in {"http", "https"}]

\* JSONOpen.__enter__ of processors/mrfutils.py: self.f
processors_enter(o) ==
    CASE o.is_remote /\ o.suffix = ".json.gz" ->
           [wrap |-> "gzip", of |-> "remote", name |-> o.filename, closed |-> FALSE]
      [] o.is_remote /\ o.suffix = ".json" ->
           [wrap |-> "plain", of |-> "remote", name |-> o.filename, closed |-> FALSE]
      [] o.suffix = ".json.gz" ->
           [wrap |-> "gzip", of |-> "local", name |-> o.filename, closed |-> FALSE]
      [] OTHER ->
           [wrap |-> "plain", of |-> "local", name |-> o.filename, closed |-> FALSE]

\* os.path.join(destination, x)
PathJoin(destination, x) == IF x # "" /\ Head(x) = "/" THEN x ELSE destination \o "/" \o x

\* download_zip_file: urlopen(url) raises on a name without a scheme;
\* extractall writes every member; files_list[0] raises on an empty archive
download_zip_file(o) ==
    LET files_list == [i \in 1..Len(o.archive) |-> PathJoin(DOWNLOADS_DIR, o.archive[i])] IN
    IF UrlScheme(o.filename) = ""
    THEN [raises |-> "ValueError", extracted |-> {}, unzipped_filename |-> ""]
    ELSE IF files_list = <<>>
    THEN [raises |-> "IndexError", extracted |-> {}, unzipped_filename |-> ""]
    ELSE [raises |-> "", extracted |-> {files_list[i] : i \in 1..Len(files_list)},
          unzipped_filename |-> files_list[1]]

\* JSONOpen.__enter__ of mrfutils/helpers.py after the zip step: self.f
helpers_enter(o) ==
    LET name == IF o.unzipped_filename # "" THEN o.unzipped_filename ELSE o.filename IN
    CASE o.is_remote /\ EndsWith(o.suffix, ".json.gz") ->
           [wrap |-> "gzip", of |-> "remote", name |-> o.filename, closed |-> FALSE]
      [] o.is_remote /\ EndsWith(o.suffix, ".json") ->
           [wrap |-> "plain", of |-> "remote", name |-> o.filename, closed |-> FALSE]
      [] o.suffix = ".json.gz" ->
           [wrap |-> "gzip", of |-> "local", name |-> name, closed |-> FALSE]
      [] OTHER ->
           [wrap |-> "plain", of |-> "local", name |-> name, closed |-> FALSE]

\* JSONOpen(filename)
JSONOpenInit ==
    /\ source.st = "call"
    /\ \E r \in {IF source.cls = "helpers" THEN helpers_init(source.filename)
                 ELSE processors_init(source.filename)} :
           source' = [source EXCEPT !.st = IF r.raises = "" THEN "constructed" ELSE "raised",
                                    !.raised = r.raises,
                                    !.suffix = r.suffix,
                                    !.is_remote = r.is_remote]
    /\ UNCHANGED <<input, pc, raised, parser, plan, ref_map, builder, resolver, cur,
                   written, yielded, call>>

\* "with JSONOpen(filename) as f": __enter__
JSONOpenEnter ==
    /\ source.st = "constructed"
    /\ IF source.cls = "helpers" /\ Lower(source.suffix) = ".zip"
       THEN \E z \in {download_zip_file(source)} :
            \E o \in {[source EXCEPT !.unzipped_filename = z.unzipped_filename,
                                     !.is_remote = FALSE,
                                     !.suffix = Suffix(z.unzipped_filename),
                                     !.downloads = source.downloads \cup z.extracted]} :
                source' = IF z.raises # ""
                          THEN [source EXCEPT !.st = "raised", !.raised = z.raises]
                          ELSE [o EXCEPT !.st = "entered", !.f = helpers_enter(o)]
       ELSE source' = [source EXCEPT !.st = "entered",
                                     !.f = IF source.cls = "helpers"
                                           THEN helpers_enter(source)
                                           ELSE processors_enter(source)]
    /\ UNCHANGED <<input, pc, raised, parser, plan, ref_map, builder, resolver, cur,
                   written, yielded, call>>

\* the end of the with block: __exit__
JSONOpenExit ==
    /\ source.st = "entered"
    /\ source' = [source EXCEPT !.st = "exited",
                                !.f.closed = TRUE,
                                !.downloads =
                                    IF source.cls = "helpers" /\ source.unzipped_filename # ""
                                    THEN source.downloads \ {source.unzipped_filename}
                                    ELSE source.downloads]
    /\ UNCHANGED <<input, pc, raised, parser, plan, ref_map, builder, resolver, cur,
                   written, yielded, call>>

\* the names a JSONOpen is made with: scheme and host, stem, suffix
Filenames ==
    { place \o stem \o suffix :
        place \in {"/data/", "https://host/mrf/", "HTTP://host/", "ftp://host/"},
        stem \in {"plan", "2023.01_plan", ".plan"},
        suffix \in {".json", ".json.gz", ".zip", ".JSON", ".Json.GZ", ".ZIP", ".csv",
                    ".gz", ".json.", ""} }

\* the members of the archive behind a .zip name
Archives ==
    { <<"plan.json">>, <<"plan.json.gz">>, <<"plan.JSON.GZ">>,
      <<"plan.json", "index.json">>, <<"a.json", "b.json", "c.json">>, <<>> }

\* the run of json_mrf_to_csv before it starts
NoRun ==
    /\ input = None
    /\ pc = ""
    /\ raised = ""
    /\ parser = [pos |-> 0, opens |-> 0]
    /\ plan = None
    /\ ref_map = <<>>
    /\ builder = NewBuilder
    /\ queue = <<>>
    /\ unfinished = 0
    /\ processed_references = <<>>
    /\ tasks = [w \in Workers |-> IdleTask]
    /\ session = "none"
    /\ cur = NoItem
    /\ written = <<>>
    /\ yielded = <<>>

InitOpen ==
    /\ NoRun
    /\ call = None
    /\ \E cls \in {"processors", "helpers"}, filename \in Filenames, archive \in Archives,
          left \in SUBSET {DOWNLOADS_DIR \o "/other.json"} :
          /\ archive # <<>> => cls = "helpers" /\ EndsWith(Lower(filename), ".zip")
          /\ source = [cls |-> cls, filename |-> filename, archive |-> archive,
                       st |-> "call", raised |-> "", suffix |-> "", is_remote |-> FALSE,
                       unzipped_filename |-> "", f |-> NoFile, downloads |-> left]

NextOpen ==
    \/ JSONOpenInit
    \/ JSONOpenEnter
    \/ JSONOpenExit

SpecOpen == InitOpen /\ [][NextOpen]_vars

(***************************************************************************)
(* price_row_from_dict on its own: call holds two prices that are given    *)
(* the same code_hash and filename_hash, and the rows returned for them    *)
(***************************************************************************)
MaxCodes == 2

\* the elements of the optional lists of a price
CodeStrs == {"02", "11", " 11", "02 "}

CodeLists == UNION { [1..n -> {JStr(s) : s \in CodeStrs}] : n \in 0..MaxCodes }

\* a price with the optional keys given (None leaves the key out)
PriceWith(service_code, billing_code_modifier) ==
    Item(<<"negotiated_type", "service_code", "negotiated_rate", "billing_code_modifier">>,
         [negotiated_type |-> JStr("negotiated"), negotiated_rate |-> JNum(10),
          service_code |-> service_code, billing_code_modifier |-> billing_code_modifier])

\* price_row_from_dict(price, code_hash, filename_hash) for each price of the call
PriceRowFromDict ==
    /\ call # None
    /\ call.fn = "price_row_from_dict"
    /\ call.st = "called"
    /\ call' = [call EXCEPT !.st = "returned",
                            !.rows = [p \in 1..Len(call.prices) |->
                                        price_row_from_dict(call.prices[p], call.code_hash,
                                                            call.filename_hash)]]
    /\ UNCHANGED <<input, pc, raised, parser, plan, ref_map, builder, resolver, cur,
                   written, yielded, source>>

InitPrice ==
    /\ NoRun
    /\ source = None
    /\ \E l1 \in CodeLists, l2 \in CodeLists,
          m \in {None, JArr(<<>>), JArr(<<JStr("25 "), JStr("26")>>)} :
          call = [fn |-> "price_row_from_dict", st |-> "called",
                  prices |-> <<PriceWith(JArr(l1), m), PriceWith(JArr(l2), m)>>,
                  code_hash |-> dicthasher(JMap(<< <<"billing_code", JStr("99213")>> >>)),
                  filename_hash |-> filename_hasher("/data/2023-01_plan.json.gz"),
                  rows |-> <<>>]

NextPrice == PriceRowFromDict

SpecPrice == InitPrice /\ [][NextPrice]_vars

(***************************************************************************)
(* ffwd on its own: call holds a parser (the events of a file and the      *)
(* number of them already consumed), the pattern, and where the parser is  *)
(* when ffwd returns (StopIteration when it raises)                        *)
(***************************************************************************)
FfwdStreams ==
    { EventsOf("", Doc(l, <<Inline(1, <<G1>>)>>, <<Probe>>, JStr("in_network"))) :
        l \in {<<"provider_references", "in_network">>, <<"comment", "in_network">>} }

\* ffwd(parser, to_prefix, to_event, to_value)
FfwdCall ==
    /\ call # None
    /\ call.fn = "ffwd"
    /\ call.st = "called"
    /\ call' = [call EXCEPT !.st = "returned",
                            !.at = ffwd(call.stream, call.pos, call.to_prefix,
                                        call.to_event, call.to_value)]
    /\ UNCHANGED <<input, pc, raised, parser, plan, ref_map, builder, resolver, cur,
                   written, yielded, source>>

InitFfwd ==
    /\ NoRun
    /\ source = None
    /\ \E stream \in FfwdStreams,
          to_prefix \in {NoArg, "", "in_network", "in_network.item"},
          to_event \in {NoArg, "map_key", "start_array", "end_map", "string"},
          to_value \in {None, JStr("in_network"), JStr("provider_references"),
                        JStr("nowhere")} :
       \E pos \in 0..Len(stream) :
          call = [fn |-> "ffwd", st |-> "called", stream |-> stream, pos |-> pos,
                  to_prefix |-> to_prefix, to_event |-> to_event, to_value |-> to_value,
                  at |-> pos]

NextFfwd == FfwdCall

SpecFfwd == InitFfwd /\ [][NextFfwd]_vars

(***************************************************************************)
(* swap_references on its own: call holds the item the generator is given, *)
(* the reference map, and the item it yields (Dropped when it yields none) *)
(***************************************************************************)
SwapItems ==
    { Item(CodesFirst, ItemValues(JStr("CPT"), JStr("99213"), None, JArr(rl))) :
        rl \in RateLists \cup {<<RateOfReferences(<<Price(10)>>, <<2, 2, 1>>),
                                 RateOfGroups(<<Price(20)>>, <<G3>>)>>} }
    \cup {ReferenceItem}

\* the maps make_reference_map can return for references 1 and 2 (a
\* reference without groups has no entry); the empty one also stands for None
ReferenceMaps ==
    UNION { [ids -> {JArr(<<G1>>), JArr(<<G2, G3>>)}] : ids \in SUBSET {JNum(1), JNum(2)} }

\* next(swap_references(iter([item]), reference_map))
SwapReferences ==
    /\ call # None
    /\ call.fn = "swap_references"
    /\ call.st = "called"
    /\ call' = [call EXCEPT !.st = "returned",
                            !.out = swap_references(call.item, call.reference_map)]
    /\ UNCHANGED <<input, pc, raised, parser, plan, ref_map, builder, resolver, cur,
                   written, yielded, source>>

InitSwap ==
    /\ NoRun
    /\ source = None
    /\ \E item \in SwapItems, reference_map \in ReferenceMaps :
          call = [fn |-> "swap_references", st |-> "called", item |-> item,
                  reference_map |-> reference_map, out |-> None]

NextSwap == SwapReferences

SpecSwap == InitSwap /\ [][NextSwap]_vars

(***************************************************************************)
(* process_groups on its own, applied to a list of groups and then to its  *)
(* own result: call holds the list, the filter and the two results         *)
(***************************************************************************)
MaxGroups == 3

\* groups with NPIs as numbers (as parsed) or as strings
GroupShapes ==
    { G1, G2, G3, GNoNpi,
      SetKey(G2, "npi", JArr(<<JStr("2"), JStr("1")>>)) }

GroupLists == UNION { [1..n -> GroupShapes] : n \in 0..MaxGroups }

\* process_groups(groups, npi_filter), then process_groups of what it returned
ProcessGroups ==
    /\ call # None
    /\ call.fn = "process_groups"
    /\ call.st \in {"called", "once"}
    /\ call' = IF call.st = "called"
               THEN [call EXCEPT !.st = "once",
                                 !.once = process_groups(call.groups, call.npi_filter)]
               ELSE [call EXCEPT !.st = "twice",
                                 !.twice = process_groups(call.once, call.npi_filter)]
    /\ UNCHANGED <<input, pc, raised, parser, plan, ref_map, builder, resolver, cur,
                   written, yielded, source>>

InitGroups ==
    /\ NoRun
    /\ source = None
    /\ \E groups \in GroupLists, npi_filter \in NpiFilters :
          call = [fn |-> "process_groups", st |-> "called", groups |-> JArr(groups),
                  npi_filter |-> npi_filter, once |-> None, twice |-> None]

NextGroups == ProcessGroups

SpecGroups == InitGroups /\ [][NextGroups]_vars

(***************************************************************************)
(* What the run has written, and what it is to write for the items it is   *)
(* given                                                                   *)
(***************************************************************************)
PlanTables == {"files", "plans", "plans_files"}

ItemTables == {"codes", "prices", "provider_groups", "prices_provider_groups"}

\* the write_table calls without the number of the item
Calls(entries) == [k \in 1..Len(entries) |->
                     [table |-> entries[k].table, rows |-> entries[k].rows]]

ItemWrites == SelectSeq(written, LAMBDA w : w.table \in ItemTables)

PlanWrites == SelectSeq(written, LAMBDA w : w.table \in PlanTables)

RECURSIVE Concat(_, _)
Concat(seqs, i) == IF i > Len(seqs) THEN <<>> ELSE seqs[i] \o Concat(seqs, i + 1)

\* the values in column key of the rows written to a table
Column(table, key) ==
    UNION { {Get(written[k].rows[i], key) : i \in 1..Len(written[k].rows)} :
              k \in {k \in 1..Len(written) : written[k].table = table} }

\* an item for which write_in_network_item raises no KeyError
Writable(item) ==
    /\ ~CodeRowRaises(item)
    /\ \A i \in 1..Len(Get(item, "negotiated_rates").el) :
           Get(Get(item, "negotiated_rates").el[i], "negotiated_prices").t = "array"

\* the write_table calls for one rate of an item
RateCalls(rate, item_code_hash) ==
    LET prices == price_rows_from_dicts(Get(rate, "negotiated_prices").el,
                                        item_code_hash, filename_hash)
        groups == group_rows_from_dicts(GetOr(rate, "provider_groups", JArr(<<>>)).el)
    IN  << [table |-> "prices", rows |-> prices],
           [table |-> "provider_groups", rows |-> groups],
           [table |-> "prices_provider_groups",
            rows |-> prices_groups_rows_from_dicts(prices, groups)] >>

\* the write_table calls for an item that the item stream delivers
ItemCalls(item) ==
    LET code_row == code_row_from_dict(item)
        rates == Get(item, "negotiated_rates").el
    IN  << [table |-> "codes", rows |-> <<code_row>>] >>
        \o Concat([i \in 1..Len(rates) |->
                     RateCalls(rates[i], Get(code_row, "code_hash"))], 1)

\* the items delivered so far: the yielded items that swap_references and
\* process_in_network let through, as they let them through
Delivered ==
    LET out == [i \in 1..Len(yielded) |->
                  IF ItemRaises(yielded[i]) THEN Dropped ELSE ProcessedItem(yielded[i])]
    IN  SelectSeq(out, LAMBDA item : item # Dropped)

\* gen_in_network_items has returned
GeneratorEnded ==
    \/ parser.pos >= Len(Stream)
    \/ /\ parser.pos > 0
       /\ Stream[parser.pos] = <<"in_network", "end_array", None>>

(***************************************************************************)
(* C1: the files, plans and plans_files rows are written only after every  *)
(* item that the item stream delivers has been written in full, with no    *)
(* item row after them; a run that failed before write_plan (a parser      *)
(* error, a truncated stream, a failed write of an item) has written none  *)
(* of them.                                                                *)
(***************************************************************************)
C1_PlanRowsAfterAllItems ==
    PlanWrites # <<>> =>
        /\ GeneratorEnded
        /\ cur.item = None
        /\ \A i \in 1..Len(Delivered) : Writable(Delivered[i])
        /\ Calls(ItemWrites) = Concat([i \in 1..Len(Delivered) |-> ItemCalls(Delivered[i])], 1)
        /\ \A k \in 1..Len(written) : \A l \in (k + 1)..Len(written) :
               written[k].table \in PlanTables => written[l].table \in PlanTables
        /\ pc \in {"write_plans", "write_plans_files", "done", "raised"}
        /\ pc = "raised" => raised = "OSError"

\* the plan rows are all written after two items were
C1_Witness ==
    /\ pc = "done"
    /\ Len(PlanWrites) = Cardinality(PlanTables)
    /\ Len(Delivered) >= 2
    /\ \E k \in 1..Len(written) : written[k].table = "codes" /\ written[k].item = 2

(***************************************************************************)
(* C2: at every moment of the run, also one at which a write has failed    *)
(* half way, every provider_group_hash written to prices_provider_groups   *)
(* is the provider_group_hash of a row written to provider_groups before.  *)
(***************************************************************************)
C2_LinkedGroupsWrittenBefore ==
    \A k \in 1..Len(written) :
        written[k].table = "prices_provider_groups" =>
            \A i \in 1..Len(written[k].rows) :
                \E l \in 1..(k - 1) :
                    /\ written[l].table = "provider_groups"
                    /\ \E g \in 1..Len(written[l].rows) :
                           Get(written[l].rows[g], "provider_group_hash")
                               = Get(written[k].rows[i], "provider_group_hash")

\* a prices_provider_groups row has been written
C2_Witness ==
    \E k \in 1..Len(written) :
        written[k].table = "prices_provider_groups" /\ written[k].rows # <<>>

(***************************************************************************)
(* C3: after a completed run the code_hash values in prices are those in   *)
(* codes.                                                                  *)
(***************************************************************************)
C3_CodesHavePrices ==
    pc = "done" => Column("prices", "code_hash") = Column("codes", "code_hash")

(***************************************************************************)
(* C10: the write_table calls of item i all come before those of item      *)
(* i + 1, and the codes row of an item is written before its prices, its   *)
(* provider_groups and its prices_provider_groups rows, which carry its    *)
(* code_hash.                                                              *)
(***************************************************************************)
C10_ItemByItemCodesFirst ==
    LET writes == ItemWrites
        delivered == Delivered
    IN  /\ \A k \in 1..Len(writes) : \A l \in (k + 1)..Len(writes) :
               writes[k].item <= writes[l].item
        /\ \A l \in 1..Len(writes) :
               writes[l].table # "codes" =>
                   \E k \in 1..(l - 1) :
                       /\ writes[k].table = "codes"
                       /\ writes[k].item = writes[l].item
                       /\ writes[l].table = "prices" =>
                              \A i \in 1..Len(writes[l].rows) :
                                  Get(writes[l].rows[i], "code_hash")
                                      = Get(writes[k].rows[1], "code_hash")
        /\ \A k \in 1..Len(writes) :
               /\ writes[k].item \in 1..Len(delivered)
               /\ writes[k].table = "codes" /\ writes[k].rows # <<>> =>
                      writes[k].rows[1] = code_row_from_dict(delivered[writes[k].item])

\* the rows of a second item have been written after those of a first
C10_Witness ==
    /\ \E k \in 1..Len(written) :
           written[k].table = "prices_provider_groups" /\ written[k].item = 1
           /\ written[k].rows # <<>>
    /\ \E k \in 1..Len(written) :
           written[k].table = "prices_provider_groups" /\ written[k].item = 2
           /\ written[k].rows # <<>>

(***************************************************************************)
(* The rows of a file, computed from its document rather than from its     *)
(* event stream: the plan is what precedes the first of the two marker     *)
(* keys, a remote reference that the network serves counts as the inline   *)
(* reference of the groups served, one it does not serve counts for        *)
(* nothing, and the items are taken in order.                              *)
(***************************************************************************)
KeyIndex(doc, key) ==
    IF HasKey(doc, key) THEN CHOOSE i \in 1..Len(doc.kv) : doc.kv[i][1] = key ELSE 0

\* structural case 2: in_network comes before provider_references
Case2(doc) ==
    /\ HasKey(doc, "in_network") /\ HasKey(doc, "provider_references")
    /\ KeyIndex(doc, "in_network") < KeyIndex(doc, "provider_references")

\* case 2 with a top-level key after provider_references
Case2Followed(doc) ==
    Case2(doc) /\ KeyIndex(doc, "provider_references") < Len(doc.kv)

PlanOf(doc) ==
    LET first == CHOOSE i \in 1..Len(doc.kv) :
                     /\ doc.kv[i][1] \in {"provider_references", "in_network"}
                     /\ \A k \in 1..(i - 1) :
                            doc.kv[k][1] \notin {"provider_references", "in_network"}
    IN  JMap(SubSeq(doc.kv, 1, first - 1))

DocReferences == GetOr(input.doc, "provider_references", JArr(<<>>)).el

DocItems == GetOr(input.doc, "in_network", JArr(<<>>)).el

IsRemote(reference) == Truthy(Get(reference, "location"))

Answer(reference) == input.net[Get(reference, "location").s]

\* a remote reference whose file is served and holds provider groups
Fetched(reference) ==
    /\ IsRemote(reference)
    /\ Answer(reference).status = 200
    /\ Answer(reference).body.t = "map"
    /\ HasKey(Answer(reference).body, "provider_groups")

\* the reference with the groups it resolves to defined inline
AsInline(reference) ==
    IF IsRemote(reference)
    THEN JMap(<< <<"provider_group_id", Get(reference, "provider_group_id")>>,
                 <<"provider_groups", Get(Answer(reference).body, "provider_groups")>> >>)
    ELSE reference

\* the references that resolve, each defined inline, in the order of the file
Resolved ==
    LET ok == SelectSeq(DocReferences, LAMBDA r : ~IsRemote(r) \/ Fetched(r)) IN
    [i \in 1..Len(ok) |-> AsInline(ok[i])]

ExpectedMap ==
    ReferenceMapOf(process_arr([i \in 1..Len(Resolved) |->
                                  process_reference(Resolved[i], input.npi_filter)]))

ExpectedItems ==
    LET kept == SelectSeq(DocItems, LAMBDA item :
                    ~CodeFilteredOut(item, input.code_filter) /\ ~ArrangementNotFfs(item))
        out == [i \in 1..Len(kept) |->
                  LET swapped == swap_references(kept[i], ExpectedMap) IN
                  IF swapped = Dropped THEN Dropped
                  ELSE process_in_network(swapped, input.npi_filter)]
    IN  SelectSeq(out, LAMBDA item : item # Dropped)

ExpectedCalls ==
    Concat([i \in 1..Len(ExpectedItems) |-> ItemCalls(ExpectedItems[i])], 1)
    \o << [table |-> "files",
           rows |-> <<file_row_from_filename(input.file, filename_hash, input.url)>>],
          [table |-> "plans", rows |-> <<plan_row_from_dict(PlanOf(input.doc))>>],
          [table |-> "plans_files",
           rows |-> <<plan_file_row_from_row(plan_row_from_dict(PlanOf(input.doc)),
                                             filename_hash)>>] >>

\* make_reference_map has just returned
MapReturned == pc = "prepare_in_network" /\ session = "closed"

(***************************************************************************)
(* C4: for a file with in_network before provider_references, whatever     *)
(* top-level keys follow, the reference map is built from the later        *)
(* block, the file is opened a second time, and a completed run has        *)
(* written the rows of the same content with provider_references first.    *)
(***************************************************************************)
C4_LateReferencesSameRows ==
    Case2(input.doc) =>
        /\ (pc \in {"gen_in_network_items", "done"} => parser.opens = 2)
        /\ (pc = "done" => ref_map = ExpectedMap /\ Calls(written) = ExpectedCalls)

C6_YieldedCodesInFilter ==
    input.code_filter # {} =>
        \A i \in 1..Len(yielded) :
            <<Get(yielded[i], "billing_code_type"), PyStr(Get(yielded[i], "billing_code"))>>
                \in input.code_filter

(***************************************************************************)
(* C7: no item that gen_in_network_items yields has a                      *)
(* negotiation_arrangement other than "ffs".                               *)
(***************************************************************************)
C7_YieldedArrangementFfs ==
    \A i \in 1..Len(yielded) :
        HasKey(yielded[i], "negotiation_arrangement") =>
            Get(yielded[i], "negotiation_arrangement") = JStr("ffs")

(***************************************************************************)
(* C8: NPI filtering.  With a filter F that is not empty a provider group  *)
(* is kept iff one of its NPIs, as a string, is in F, and its NPI list     *)
(* becomes its NPIs in F, in their order; with no filter every group is    *)
(* kept with all its NPIs as strings.  This holds of the groups in the     *)
(* reference map and of the groups in the rates of a delivered item.       *)
(***************************************************************************)
NpiStrs(group) ==
    [i \in 1..Len(Get(group, "npi").el) |-> JStr(ToString(Get(group, "npi").el[i].n))]

FilteredGroups(groups, F) ==
    LET kept == SelectSeq(groups, LAMBDA g :
                    F = {} \/ \E i \in 1..Len(NpiStrs(g)) : NpiStrs(g)[i].s \in F)
    IN  [k \in 1..Len(kept) |->
           SetKey(kept[k], "npi",
                  JArr(SelectSeq(NpiStrs(kept[k]), LAMBDA n : F = {} \/ n.s \in F)))]

\* the references that resolve and keep a group, with the groups kept
FilteredReferences ==
    LET out == [i \in 1..Len(Resolved) |->
                  SetKey(Resolved[i], "provider_groups",
                         JArr(FilteredGroups(Get(Resolved[i], "provider_groups").el,
                                             input.npi_filter)))]
    IN  SelectSeq(out, LAMBDA r : Get(r, "provider_groups").el # <<>>)

\* the groups of a rate of the file: its own, then those of its references
GroupsOfRate(rate) ==
    GetOr(rate, "provider_groups", JArr(<<>>)).el
    \o Concat([i \in 1..Len(GetOr(rate, "provider_references", JArr(<<>>)).el) |->
                 LET id == Get(rate, "provider_references").el[i] IN
                 IF id \in DOMAIN ReferenceMapOf(Resolved)
                 THEN ReferenceMapOf(Resolved)[id].el ELSE <<>>], 1)

FetchFailed(reference) == IsRemote(reference) /\ Answer(reference).status # 200

C9_FailedReferenceDropped ==
    MapReturned =>
        /\ \A i \in 1..Len(DocReferences) :
               FetchFailed(DocReferences[i])
               /\ (\A k \in 1..Len(Resolved) :
                       Get(Resolved[k], "provider_group_id")
                           # Get(DocReferences[i], "provider_group_id"))
               => Get(DocReferences[i], "provider_group_id") \notin DOMAIN ref_map
        /\ ref_map = ExpectedMap
        /\ raised = ""

\* the map is returned with the entry of a reference that resolved and
\* without one for a reference whose fetch failed
C9_Witness ==
    /\ MapReturned
    /\ \E i, k \in 1..Len(DocReferences) :
           /\ FetchFailed(DocReferences[i])
           /\ Get(DocReferences[i], "provider_group_id") \notin DOMAIN ref_map
           /\ Get(DocReferences[k], "provider_group_id") \in DOMAIN ref_map

(***************************************************************************)
(* The Input Source                                                        *)
(***************************************************************************)
SuffixIs(name, ext) == EndsWith(Lower(name), ext)

Recognised(filename) ==
    \E ext \in {".json.gz", ".json", ".zip"} : SuffixIs(UrlPath(filename), ext)

IsZip(filename) == SuffixIs(UrlPath(filename), ".zip")

\* the file the stream is read from: the first member of an archive
Opened ==
    IF IsZip(source.filename) /\ source.archive # <<>>
    THEN PathJoin(DOWNLOADS_DIR, source.archive[1])
    ELSE source.filename

\* C11: a name is accepted iff its suffix is .json.gz, .json or .zip in any
\* case, and is refused with InvalidMRF before anything is opened otherwise;
\* an opened stream is decompressed exactly when the suffix of the file read
\* (the extracted file for a zip) is .json.gz and plain exactly when it is
\* .json, and is remote exactly when the scheme is http or https
C11_SuffixDecidesTheStream ==
    /\ source.st \in {"constructed", "entered", "exited"} => Recognised(source.filename)
    /\ source.st = "raised" /\ source.raised = "InvalidMRF" =>
           ~Recognised(source.filename) /\ source.f = NoFile
    /\ source.st \in {"entered", "exited"} =>
           /\ source.f.wrap = "gzip" <=> SuffixIs(UrlPath(Opened), ".json.gz")
           /\ source.f.wrap = "plain" <=> SuffixIs(UrlPath(Opened), ".json")
           /\ ~IsZip(source.filename) =>
                  (source.f.of = "remote" <=> UrlScheme(source.filename) \in {"http", "https"})

(***************************************************************************)
(* The plan                                                                *)
(***************************************************************************)
MissingPlanKeys == {key \in {PlanKeys[i] : i \in 1..Len(PlanKeys)} : ~HasKey(input.doc, key)}

\* C12: a run on a file that lacks one of the eight plan keys writes no
\* plans row and does not complete; when it fails in the program (not in
\* the parser or in a write) the exception is InvalidMRF
C12_MissingPlanKeyIsInvalidMRF ==
    MissingPlanKeys # {} =>
        /\ \A k \in 1..Len(written) : written[k].table # "plans"
        /\ pc # "done"
        /\ pc = "raised" => raised \in {"InvalidMRF", "IncompleteJSONError", "OSError"}

(***************************************************************************)
(* The optional lists of a price                                           *)
(***************************************************************************)
\* the list of a price under an optional key, [] when the key is absent
ListOf(price, key) == GetOr(price, key, JArr(<<>>)).el

Trimmed(list) == [i \in 1..Len(list) |-> JStr(Strip(list[i].s))]

\* the two lists have the same elements after trimming, in any order
SameElements(l1, l2) ==
    /\ Len(l1) = Len(l2)
    /\ SortedStrs(Trimmed(l1)) = SortedStrs(Trimmed(l2))

\* C13: in the row of a price an optional list is present only when the
\* list of the price is non-empty, and is then the JSON array of its
\* elements trimmed and in lexicographic order after trimming; two prices
\* whose lists differ only in order or surrounding whitespace get the same
\* row, price_hash included
C13_OptionalListsNormalised ==
    call.st = "returned" =>
        /\ \A p \in 1..Len(call.prices) : \A i \in 1..Len(optional_json_keys) :
               LET key == optional_json_keys[i]
                   list == ListOf(call.prices[p], key)
               IN  /\ HasKey(call.rows[p], key) <=> list # <<>>
                   /\ HasKey(call.rows[p], key) =>
                          Get(call.rows[p], key) = JsonDumps(SortedStrs(Trimmed(list)))
        /\ (\A i \in 1..Len(optional_json_keys) :
                SameElements(ListOf(call.prices[1], optional_json_keys[i]),
                             ListOf(call.prices[2], optional_json_keys[i])))
           => call.rows[1] = call.rows[2]

\* the files the Input Source has extracted into the downloads directory
Extracted == {PathJoin(DOWNLOADS_DIR, source.archive[i]) : i \in 1..Len(source.archive)}

\* C14: for a zip input that was extracted, the extracted file is in the
\* downloads directory while the Input Source is open, and no extracted
\* file is there once the Input Source has been closed
C14_ExtractionDeletedByClose ==
    source.unzipped_filename # "" =>
        /\ source.st = "entered" => source.unzipped_filename \in source.downloads
        /\ source.st = "exited" => source.downloads \cap Extracted = {}

(***************************************************************************)
(* The reference resolver                                                  *)
(***************************************************************************)
InResolver == pc \in {"gen_references", "queue_join", "session_close", "sleep", "cancel",
                      "gather"}

\* C15: make_reference_map terminates: whatever the fetches end in, a run
\* that is in make_reference_map can take a step (the queue drains,
\* queue.join returns, the workers are cancelled, the map is returned)
C15_ResolverTerminates == InResolver => ENABLED Next

\* the map when the workers finish their fetches in the order of the queue:
\* the inline references come first, then the fetched ones
QueueOrderMap ==
    LET inline == SelectSeq(DocReferences, LAMBDA r : ~IsRemote(r))
        fetched == SelectSeq(DocReferences, Fetched)
        all == inline \o [i \in 1..Len(fetched) |-> AsInline(fetched[i])]
    IN  ReferenceMapOf(process_arr([i \in 1..Len(all) |->
                                      process_reference(all[i], input.npi_filter)]))

\* C17: the map that make_reference_map returns depends on the references
\* and on what their fetches end in, not on the order in which the workers
\* take and finish them: it is the map of the run in which they finish in
\* the order of the queue, also when references share a provider_group_id
C17_MapIndependentOfOrder == MapReturned => ref_map = QueueOrderMap

(***************************************************************************)
(* The positioning step                                                    *)
(***************************************************************************)
\* the number of events up to and including ('', 'map_key', 'in_network')
InNetworkKey == ffwd(Stream, 0, "", NoArg, JStr("in_network"))

\* C16: when prepare_in_network hands the parser to gen_in_network_items,
\* the next event is the start_array of in_network, whatever other keys
\* stand around provider_references and in_network; and when the first
\* parse has passed the in_network key, the file has been opened again
C16_PositionedAtInNetwork ==
    [][pc = "prepare_in_network" /\ pc' = "gen_in_network_items" =>
           /\ peek(Stream, parser'.pos) = <<"in_network", "start_array", None>>
           /\ parser.pos >= InNetworkKey =>
                  parser'.opens = parser.opens + 1 /\ parser'.pos = InNetworkKey]_vars

\* the provider_group_id values of the references in the shared list
Appended == {Get(processed_references[i], "provider_group_id") :
               i \in 1..Len(processed_references)}

\* C18: the workers are cancelled after the queue has drained: when the
\* tasks are cancelled the queue is empty, no work item is unfinished and no
\* worker is between queue.get() and task_done(); the cancellation leaves
\* the shared list as it is, and every provider_group_id in it is a key of
\* the map returned
C18_CancelledAfterDrain ==
    /\ pc \in {"cancel", "gather"} =>
           /\ queue = <<>> /\ unfinished = 0
           /\ \A w \in Workers : tasks[w].st \notin {"get", "read"}
    /\ pc = "gather" => \A w \in Workers : tasks[w].st \in {"cancelled", "raised"}
    /\ MapReturned => Appended = DOMAIN ref_map

\* the map is returned, with the entry of a reference that a worker
\* appended, after the workers were cancelled
C18_Witness ==
    /\ MapReturned
    /\ \E w \in Workers : tasks[w].st = "cancelled"
    /\ \E i \in 1..Len(DocReferences) :
           /\ Fetched(DocReferences[i])
           /\ Get(DocReferences[i], "provider_group_id") \in DOMAIN ref_map
           /\ \A k \in 1..Len(DocReferences) : IsRemote(DocReferences[k])

\* C19 as stated: the session is not closed before the quiescence delay has
\* elapsed (queue drained, then the delay, then the close of the session)
C19_DelayBeforeSessionClose ==
    pc \in {"gen_references", "queue_join", "session_close", "sleep"} => session = "open"

\* C19, amended: the shutdown order is queue drained, then the close of the
\* shared session, then the quiescence delay, then the cancellation of the
\* workers: the session is open until queue.join has returned, it is
\* closed when the delay starts, and no worker is cancelled before the
\* delay has elapsed
C19_SessionClosedBeforeDelay ==
    /\ pc \in {"gen_references", "queue_join", "session_close"} => session = "open"
    /\ pc \in {"session_close", "sleep", "cancel", "gather"} => unfinished = 0
    /\ pc \in {"sleep", "cancel", "gather"} => session = "closed"
    /\ pc \in {"session_close", "sleep", "cancel"} =>
           \A w \in Workers : tasks[w].st # "cancelled"

\* the delay starts with the session closed, after a worker has fetched a
\* reference
C19_Witness ==
    /\ pc = "sleep"
    /\ session = "closed"
    /\ \E i \in 1..Len(DocReferences) :
           /\ Fetched(DocReferences[i])
           /\ Get(DocReferences[i], "provider_group_id") \in Appended

(***************************************************************************)
(* ffwd                                                                    *)
(***************************************************************************)
\* the event matches the pattern of the call on every component that is
\* not left at None
Matches(e) ==
    /\ call.to_prefix = NoArg \/ e[1] = call.to_prefix
    /\ call.to_event = NoArg \/ e[2] = call.to_event
    /\ call.to_value = None \/ e[3] = call.to_value

\* C20: ffwd leaves the parser right after the first event from where it
\* was that matches the pattern on every component given, whichever
\* components are left out, and raises StopIteration when no event matches
C20_FfwdStopsAtFirstMatch ==
    call.st = "returned" =>
        LET hits == {i \in (call.pos + 1)..Len(call.stream) : Matches(call.stream[i])} IN
        IF hits = {} THEN call.at = StopIteration
        ELSE call.at = CHOOSE i \in hits : \A j \in hits : i <= j

(***************************************************************************)
(* get_plan                                                                *)
(***************************************************************************)
\* the events whose value is "provider_references" or "in_network"
Markers ==
    {i \in 1..Len(Stream) : Stream[i][3] \in {JStr("provider_references"), JStr("in_network")}}

FirstMarker == CHOOSE i \in Markers : \A j \in Markers : i <= j

\* the top-level dict after the first n events of the file, when these are
\* the start_map, then a map_key and a scalar for each member
SeenPlan(n) == JMap(SubSeq(input.doc.kv, 1, (n - 1) \div 2))

\* C21: get_plan consumes the events up to the first one whose value is
\* "provider_references" or "in_network" (a key or not), returns the dict
\* built from the events up to it, and leaves the parser right after it;
\* when the stream ends without such an event it raises InvalidMRF, and it
\* raises InvalidMRF in no other case
C21_GetPlanStopsAtFirstMarker ==
    [][pc = "get_plan" =>
           /\ pc' = "get_plan" => parser'.pos \notin Markers
           /\ pc' = "get_reference_map" =>
                  /\ Markers # {}
                  /\ parser'.pos = FirstMarker
                  /\ plan' = SeenPlan(FirstMarker)
           /\ raised' = "InvalidMRF" => Markers = {} /\ parser.pos = Len(Stream)
           /\ Markers = {} /\ parser.pos = Len(Stream) => pc' = "raised"]_vars

\* get_plan has returned at the value of a key that stands before in_network
C21_Witness ==
    /\ pc = "get_reference_map"
    /\ Get(plan, "comment") \in {JStr("in_network"), JStr("provider_references")}
    /\ peek(Stream, parser.pos) = <<"", "map_key", JStr("in_network")>>

(***************************************************************************)
(* The reference swap                                                      *)
(***************************************************************************)
\* the groups of a rate after the swap: its inline groups, then the groups
\* the map holds for each of its reference ids, in the order listed
SwappedGroups(rate, reference_map) ==
    LET ids == GetOr(rate, "provider_references", JArr(<<>>)).el IN
    GetOr(rate, "provider_groups", JArr(<<>>)).el
    \o Concat([i \in 1..Len(ids) |->
                 IF ids[i] \in DOMAIN reference_map THEN reference_map[ids[i]].el
                 ELSE <<>>], 1)

\* the lists of groups of the rates that have any
WithGroups(lists) == SelectSeq(lists, LAMBDA groups : groups # <<>>)

\* C22: the rates of the item that swap_references yields are the rates
\* given that have groups after the swap, each with its inline groups
\* followed by the groups the map holds for its reference ids in the order
\* listed (an id missing from the map adds nothing), and none of them has
\* provider_references any more
C22_ReferencesSwappedAndRemoved ==
    call.st = "returned" =>
        LET rates == Get(call.item, "negotiated_rates").el
            swapped == [i \in 1..Len(rates) |-> SwappedGroups(rates[i], call.reference_map)]
        IN  IF call.out = Dropped THEN WithGroups(swapped) = <<>>
            ELSE LET out == Get(call.out, "negotiated_rates").el IN
                 /\ WithGroups([i \in 1..Len(out) |->
                                  GetOr(out[i], "provider_groups", JArr(<<>>)).el])
                        = WithGroups(swapped)
                 /\ \A i \in 1..Len(out) : ~HasKey(out[i], "provider_references")

(***************************************************************************)
(* The items delivered to write_in_network_item                            *)
(***************************************************************************)
\* C23: an item that Content.in_network_items delivers has at least one
\* rate, every rate of it has a provider_groups list that is not empty,
\* and with an NPI filter every group in it has at least one NPI: a rate
\* left without groups and an item left without rates are not delivered
C23_DeliveredRatesHaveGroups ==
    cur.item # None =>
        LET rates == GetOr(cur.item, "negotiated_rates", JArr(<<>>)).el IN
        /\ rates # <<>>
        /\ \A i \in 1..Len(rates) :
               LET groups == GetOr(rates[i], "provider_groups", JArr(<<>>)).el IN
               /\ groups # <<>>
               /\ input.npi_filter # {} =>
                      \A g \in 1..Len(groups) : Get(groups[g], "npi").el # <<>>

\* with an NPI filter, an item is delivered without one of the rates it
\* was read with
C23_Witness ==
    /\ pc = "write_codes"
    /\ input.npi_filter # {}
    /\ Len(Rates) < Len(Get(yielded[Len(yielded)], "negotiated_rates").el)

(***************************************************************************)
(* The builder of gen_in_network_items                                     *)
(***************************************************************************)
\* builder.value is the in_network list, with no item in it, and the only
\* open container is that list
Clean(b) ==
    /\ b.has /\ IsList(b, b.value)
    /\ b.heap[b.value.id].el = <<>>
    /\ b.containers = <<[c |-> "initial_set", id |-> 0], [c |-> "append", id |-> b.value.id]>>

\* the step of gen_in_network_items yields an item, or skips one
Yields == pc = "gen_in_network_items" /\ yielded' # yielded

Skips == pc = "gen_in_network_items" /\ pc' # "raised" /\ parser'.pos > parser.pos + 1

\* C24: the builder of gen_in_network_items never holds more than one
\* item; after a step that yields or skips an item its list is empty and
\* its only open container is the in_network array, whatever items were
\* kept or skipped before; and every item yielded is an item of the file
C24_BuilderCleanAfterEachItem ==
    [][/\ pc' = "gen_in_network_items" /\ IsList(builder', builder'.value) =>
              Len(builder'.heap[builder'.value.id].el) <= 1
       /\ Yields \/ Skips => Clean(builder')
       /\ \A i \in 1..Len(yielded') : \E k \in 1..Len(DocItems) : yielded'[i] = DocItems[k]]_vars

\* an item is yielded, and leaves the builder clean, after the item before
\* it was skipped at its last key
C24_Witness ==
    /\ input.family = "sequence"
    /\ Len(DocItems) >= 2
    /\ ArrangementNotFfs(DocItems[1])
    /\ \E k \in 2..Len(DocItems) : yielded = <<DocItems[k]>>
    /\ Clean(builder)

(***************************************************************************)
(* NPI filtering applied twice                                             *)
(***************************************************************************)
\* C25: NPI filtering is idempotent: for every list of groups and every
\* filter, process_groups of the result of process_groups is that result,
\* the same groups with the same npi lists
C25_NpiFilteringIdempotent == call.st = "twice" => call.twice = call.once

\* the filter was applied twice to a list from which it removes a group
\* and in which it cuts down the NPIs, read as numbers, of another
C25_Witness ==
    /\ call.st = "twice"
    /\ call.npi_filter # {}
    /\ call.once.el # <<>>
    /\ Len(call.once.el) < Len(call.groups.el)
    /\ \E i \in 1..Len(call.groups.el) :
           /\ Get(call.groups.el[i], "npi").el = <<JNum(1), JNum(2)>>
           /\ SetKey(call.groups.el[i], "npi", JArr(<<JStr("2")>>)) = call.twice.el[1]

=============================================================================
